---- MODULE Spec2Model ----
(***************************************************************************)
(* A model of scripts/run_benchmark.py: the benchmark run (main), the      *)
(* per-problem orchestrator (evaluate_problem), the test verifier          *)
(* (run_test_cases), the sandbox executor (execute_code_with_input), the   *)
(* response extractor (extract_code_from_response) and calculate_cost; and *)
(* of dagster_definitions/sensors.py: the schedule sensor                  *)
(* (benchmark_schedule_sensor) with cron_matches, evaluated by its         *)
(* scheduler again and again (SensorSpec).                                 *)
(*                                                                         *)
(* Python values are modelled as follows.                                  *)
(*   - text is a sequence of one-character strings;                        *)
(*   - None is the string "none" where the code holds an optional string,  *)
(*     and a record with kind "none" where it holds an optional object;    *)
(*   - the generated code is untrusted: what the spawned process does      *)
(*     (exit status, stdout, stderr, running past the timeout) is a        *)
(*     nondeterministic choice;                                            *)
(*   - latency_ms and the wall clock are left out: no modelled branch      *)
(*     reads them; so are the report's model_id, run_date, duration and    *)
(*     rounded costs;                                                      *)
(*   - money is an integer number of 10^-8 dollar: a price per million     *)
(*     tokens is held in cents, so tokens / 1000000 * price is the product *)
(*     of the token count and the price in cents;                          *)
(*   - in the sensor, a formatted time and a cursor key are sequences of   *)
(*     their fields, a cron expression is the sequence of its fields and   *)
(*     a field a sequence of tokens; the cursor dict is the set of its     *)
(*     keys (every value is True); the elements of the API's answer are    *)
(*     dicts, and model_id and cron_expression are strings or absent.      *)
(***************************************************************************)
EXTENDS Integers, Sequences, FiniteSets, Bags, TLC

VARIABLES
    entry,               \* the function called: "main", "evaluate_problem", "run_test_cases", ...
    pc,                  \* position of the single thread of control
    model,               \* args.model / the model argument
    anthropic_client,    \* TRUE when the client object is not None
    openai_client,       \* TRUE when the client object is not None
    problems,            \* main: the loaded dataset
    i,                   \* main: number of problems taken from the dataset so far
    problem,             \* evaluate_problem: the problem argument
    problem_id,          \* evaluate_problem: problem_id
    gen,                 \* the generation call in flight: "none", "openai", "anthropic"
    response_text,       \* evaluate_problem: response_text
    input_tokens,        \* evaluate_problem: input_tokens
    output_tokens,       \* evaluate_problem: output_tokens
    code,                \* evaluate_problem / run_test_cases: code
    test_cases,          \* evaluate_problem / run_test_cases: test_cases
    k,                   \* run_test_cases: number of cases taken from test_cases so far
    proc,                \* the sandboxed process in flight: "none", "running"
    children,            \* TRUE when a process started by the sandboxed process runs, holding its pipes
    result,              \* execute_code_with_input: result, kept until the verifier has read the return value
    exec_ret,            \* run_test_cases: (success, error_type, actual_output)
    rtc_ret,             \* value returned by run_test_cases
    ret,                 \* value returned by evaluate_problem
    results,             \* main: results
    total_input_tokens,  \* main: total_input_tokens
    total_output_tokens, \* main: total_output_tokens
    input_cost,          \* main: input_cost, in units of 10^-8 dollar
    output_cost,         \* main: output_cost, in units of 10^-8 dollar
    report,              \* main: benchmark_results
    written,             \* number of report files written
    exc,                 \* the exception that left a statement of this call: class and line
    fed,                 \* the test inputs of the executor calls made in this call, in order
    outcomes,            \* what the executor calls of this call returned, in order
    spawned,             \* processes spawned in this call
    gen_calls,           \* generation calls made in this evaluate_problem call, per provider
    sensor               \* benchmark_schedule_sensor: its locals, the scheduler's cursor and
                         \*   the log of its calls, as one record (fields below, at SensorInit)

vars == <<entry, pc, model, anthropic_client, openai_client, problems, i, problem,
          problem_id, gen, response_text, input_tokens, output_tokens, code, test_cases, k,
          proc, children, result, exec_ret, rtc_ret, ret, results, total_input_tokens,
          total_output_tokens, input_cost, output_cost, report, written, exc, fed,
          outcomes, spawned, gen_calls, sensor>>

----
\* Bounds

\* longest dataset main loads
MaxProblems == 2
\* longest test-case list one field of a problem holds
MaxCases == 2
\* most segments (fenced blocks, lines of prose) of a response handed to a
\* direct call of extract_code_from_response
MaxSegments == 3
\* most schedules the benchmark API returns in one answer
MaxSchedules == 2
\* most evaluations of the sensor in one behaviour
MaxEvaluations == 2

----
\* Text

Whitespace == {" ", "\n", "\t"}

RECURSIVE LStrip(_)
\* str.lstrip()
LStrip(s) ==
    IF s # <<>> /\ Head(s) \in Whitespace THEN LStrip(Tail(s)) ELSE s

RECURSIVE RStrip(_)
\* str.rstrip()
RStrip(s) ==
    IF s # <<>> /\ s[Len(s)] \in Whitespace THEN RStrip(SubSeq(s, 1, Len(s) - 1)) ELSE s

\* a normalisation that removes every whitespace character
StripEverywhere(s) == SelectSeq(s, LAMBDA ch : ch \notin Whitespace)

\* str.strip()
Strip(s) == RStrip(LStrip(s))

\* str.startswith(prefix)
StartsWith(s, prefix) ==
    /\ Len(s) >= Len(prefix)
    /\ SubSeq(s, 1, Len(prefix)) = prefix

\* needle in haystack, for a one-token needle and a tokenised haystack
Contains(haystack, needle) == \E n \in 1..Len(haystack) : haystack[n] = needle

----
\* Inputs: model ids, datasets, what the external collaborators return

\* model ids (args.model): two OpenAI-routed ids, two others
Models ==
    { <<"g", "p", "t", "-", "4">>, <<"o", "3">>,
      <<"c", "l", "a", "u", "d", "e">>, <<"o", "1">> }

\* test cases as the dataset holds them; a dict, or (NonDict) any other element
c1 == [is_dict |-> TRUE, input |-> "i1", output |-> <<"a">>]
c2 == [is_dict |-> TRUE, input |-> "i2", output |-> <<"b", "\n">>]
c3 == [is_dict |-> TRUE, input |-> "i3", output |-> <<" ", "a">>]
c4 == [is_dict |-> TRUE, input |-> "i4", output |-> <<"a", " ", "b", "\n">>]
c5 == [is_dict |-> TRUE, input |-> "i5", output |-> <<"\t", "a", "\n", "b", "\n">>]
NonDict == [is_dict |-> FALSE, input |-> "", output |-> <<>>]
AllCases == <<c1, c2, c3, c1>>

\* the test-case lists a field can hold
CaseLists == { SubSeq(AllCases, 1, m) : m \in 0..MaxCases }

\* Values of problem["public_test_cases"] / problem["private_test_cases"]:
\*   kind "none": key absent or None;  kind "list": a structured list;
\*   kind "str": a string, of which doc says what json.loads makes:
\*     "empty" the string "", "invalid" no JSON, "array" a JSON list of items,
\*     "scalar" a JSON number/null/true, "object" a JSON object or string
\*     (iterating it yields items that are no dicts).
NoneField == [kind |-> "none", doc |-> "-", items |-> <<>>]
ListField(l) == [kind |-> "list", doc |-> "-", items |-> l]
StrField(d, l) == [kind |-> "str", doc |-> d, items |-> l]
FieldValues ==
    {NoneField}
    \cup { ListField(l) : l \in CaseLists }
    \cup { StrField("array", l) : l \in CaseLists }
    \cup { StrField("empty", <<>>), StrField("invalid", <<>>), StrField("scalar", <<>>),
           StrField("object", <<>>), StrField("object", <<NonDict>>) }

\* question ids by dataset position
QuestionIds == <<"q1", "q2", "q3", "q4", "q5">>

\* problems handed to evaluate_problem by a direct caller
Problems ==
    [question_id : {"absent", "q1"},
     public_test_cases : FieldValues,
     private_test_cases : FieldValues]

\* test-field combinations of the datasets main loads
DatasetFields ==
    { <<NoneField, NoneField>>,
      <<StrField("array", <<c1>>), NoneField>>,
      <<StrField("invalid", <<>>), StrField("array", <<c1>>)>>,
      <<ListField(<<c1>>), StrField("scalar", <<>>)>> }

\* the datasets load_problems can return
Datasets ==
    UNION { { [j \in 1..n |->
                  [question_id |-> QuestionIds[j],
                   public_test_cases |-> f[j][1],
                   private_test_cases |-> f[j][2]]] : f \in [1..n -> DatasetFields] }
            : n \in 0..MaxProblems }

\* a dataset of three problems: A without test cases, B with one public test
\* case, C without test cases
ScenarioABC ==
    << [question_id |-> "q1", public_test_cases |-> NoneField,
        private_test_cases |-> NoneField],
       [question_id |-> "q2", public_test_cases |-> StrField("array", <<c1>>),
        private_test_cases |-> NoneField],
       [question_id |-> "q3", public_test_cases |-> NoneField,
        private_test_cases |-> NoneField] >>

\* (input_tokens, output_tokens) a generation call reports
Usages == { <<1, 2>>, <<2, 1>> }

\* Response texts are sequences of tokens: Fence stands for the three backquotes
\* of a markdown fence, "python", "py" and "js" are words, "x=1" is code without
\* fences or newlines.
Fence == "FENCE"
NoText == [is_none |-> TRUE, text |-> <<>>]
Text(t) == [is_none |-> FALSE, text |-> t]

\* what a generation call returns as response_text; NoText is a response whose
\* content is None
Responses ==
    { NoText,
      Text(<<Fence, "python", "\n", "x=1", "\n", Fence>>),
      Text(<<"x=1">>) }

\* The responses a direct caller of extract_code_from_response passes are
\* documents: up to MaxSegments segments, then possibly a fence that is never
\* closed. The segment at position j carries the code token CodeWords[j].
CodeWords == <<"x=1", "x=2", "x=3", "x=4", "x=5">>

SegmentKinds == {"python", "py", "js", "bare", "empty", "prose", "blank"}

\* the text of a segment of the given kind at position j
Segment(kind, j) ==
    LET w == CodeWords[j] IN
    CASE kind = "python" -> <<Fence, "python", "\n", " ", w, "\n", Fence, "\n">>
      [] kind = "py" -> <<Fence, "py", "\n", w, Fence>>
      [] kind = "js" -> <<Fence, "js", "\n", w, "\n", Fence, "\n">>
      [] kind = "bare" -> <<Fence, "\n", w, "\t", "\n", Fence, "\n">>
      [] kind = "empty" -> <<Fence, "python", "\n", Fence, "\n">>
      [] kind = "prose" -> <<"t", " ", w, "\n">>
      [] kind = "blank" -> <<" ", "\n">>

\* an unterminated fence at the end of a response, or nothing
Tails == { <<>>, <<Fence, "python", "\n", "u", "\n">>, <<Fence, "\n", "u">> }

RECURSIVE Render(_, _)
\* the text of the segments j, j+1, ... of the document d
Render(d, j) ==
    IF j > Len(d) THEN <<>> ELSE Segment(d[j], j) \o Render(d, j + 1)

Documents == UNION { [1..n -> SegmentKinds] : n \in 0..MaxSegments }

\* response_text of a direct call of extract_code_from_response
ResponseTexts == { Render(d, 1) \o tail : d \in Documents, tail \in Tails }

\* what a finished process leaves: stdout and stderr
Stdouts == { <<"a">>, <<"a", "\n">>, <<"b">>, <<"a", "\n", "b">> }
Stderrs == { <<>>, <<"File", "SyntaxError">>, <<"Traceback", "ValueError">> }

----
\* Pure functions of run_benchmark.py

\* a routing that knows the gpt prefix only
UsesOpenAIGptOnly(m) == StartsWith(m, <<"g", "p", "t">>)

\* model.startswith("gpt") or model.startswith("o3")
UsesOpenAI(m) == StartsWith(m, <<"g", "p", "t">>) \/ StartsWith(m, <<"o", "3">>)

\* a lookup under a key the dataset does not have
ProblemIdOfWrongKey(p) == "unknown"

\* problem.get("question_id", "unknown")
ProblemIdOf(p) == IF p.question_id = "absent" THEN "unknown" ELSE p.question_id

\* bool(value) of a test-case field, as `if public_tests:` evaluates it
Truthy(v) ==
    CASE v.kind = "none" -> FALSE
      [] v.kind = "list" -> v.items # <<>>
      [] v.kind = "str" -> v.doc # "empty"

\* json.loads(text): the exception it raises ("none" when it returns), whether
\* the value it returns can be iterated, and the items iterating it yields
JsonLoads(v) ==
    CASE v.doc \in {"invalid", "empty"} ->
            [raises |-> "JSONDecodeError", iterable |-> FALSE, items |-> <<>>]
      [] v.doc = "scalar" -> [raises |-> "none", iterable |-> FALSE, items |-> <<>>]
      [] v.doc \in {"array", "object"} ->
            [raises |-> "none", iterable |-> TRUE, items |-> v.items]

\* a parser without the inner `except json.JSONDecodeError`
ParseFieldDecodeErrorFatal(v) ==
    IF ~Truthy(v) THEN [raises |-> "none", items |-> <<>>]
    ELSE IF v.kind = "str" THEN
        LET loaded == JsonLoads(v) IN
        IF loaded.raises # "none" THEN [raises |-> loaded.raises, items |-> <<>>]
        ELSE IF ~loaded.iterable THEN [raises |-> "TypeError", items |-> <<>>]
        ELSE [raises |-> "none", items |-> loaded.items]
    ELSE [raises |-> "none", items |-> v.items]

\* One field's share of lines 252-266: the exception that leaves the block
\* ("none" when none does) and the items test_cases.extend() appends.
ParseField(v) ==
    IF ~Truthy(v) THEN [raises |-> "none", items |-> <<>>]
    ELSE IF v.kind = "str" THEN
        LET loaded == JsonLoads(v) IN
        IF loaded.raises = "JSONDecodeError" THEN [raises |-> "none", items |-> <<>>]
        ELSE IF ~loaded.iterable THEN [raises |-> "TypeError", items |-> <<>>]
        ELSE [raises |-> "none", items |-> loaded.items]
    ELSE [raises |-> "none", items |-> v.items]

\* \w of the regular expressions, on tokens
WordTokens == {"python", "py", "js"}

RECURSIVE FindFence(_, _)
\* index of the first Fence of t at or after position s, 0 when there is none:
\* where the lazy group (.*?) followed by the closing fence ends
FindFence(t, s) ==
    IF s > Len(t) THEN 0
    ELSE IF t[s] = Fence THEN s
    ELSE FindFence(t, s + 1)

RECURSIVE WordRun(_, _)
\* number of consecutive word tokens of t from position s on: what \w* takes
WordRun(t, s) ==
    IF s <= Len(t) /\ t[s] \in WordTokens THEN 1 + WordRun(t, s + 1) ELSE 0

\* a match of FENCE(?:python|py)\n(.*?)FENCE (re.DOTALL) starting at position s
PythonMatch(t, s) ==
    LET close == FindFence(t, s + 3) IN
    IF /\ s + 2 <= Len(t)
       /\ t[s] = Fence
       /\ t[s + 1] \in {"python", "py"}
       /\ t[s + 2] = "\n"
       /\ close # 0
    THEN [ok |-> TRUE, group |-> SubSeq(t, s + 3, close - 1), end |-> close]
    ELSE [ok |-> FALSE, group |-> <<>>, end |-> 0]

\* a match of FENCE\n(.*?)FENCE starting at position s: fences without a tag only
GenericMatchUntagged(t, s) ==
    LET close == FindFence(t, s + 2) IN
    IF /\ s + 1 <= Len(t)
       /\ t[s] = Fence
       /\ t[s + 1] = "\n"
       /\ close # 0
    THEN [ok |-> TRUE, group |-> SubSeq(t, s + 2, close - 1), end |-> close]
    ELSE [ok |-> FALSE, group |-> <<>>, end |-> 0]

\* a match of FENCE\w*\n(.*?)FENCE (re.DOTALL) starting at position s
GenericMatch(t, s) ==
    LET w == WordRun(t, s + 1)
        close == FindFence(t, s + w + 2)
    IN
    IF /\ s + w + 1 <= Len(t)
       /\ t[s] = Fence
       /\ t[s + w + 1] = "\n"
       /\ close # 0
    THEN [ok |-> TRUE, group |-> SubSeq(t, s + w + 2, close - 1), end |-> close]
    ELSE [ok |-> FALSE, group |-> <<>>, end |-> 0]

RECURSIVE FindAllPython(_, _)
\* re.findall of the tagged pattern from position s on: leftmost matches that
\* do not overlap
FindAllPython(t, s) ==
    IF s > Len(t) THEN <<>>
    ELSE LET m == PythonMatch(t, s) IN
         IF m.ok THEN <<m.group>> \o FindAllPython(t, m.end + 1)
         ELSE FindAllPython(t, s + 1)

RECURSIVE FindAllGeneric(_, _)
\* re.findall of the generic pattern from position s on
FindAllGeneric(t, s) ==
    IF s > Len(t) THEN <<>>
    ELSE LET m == GenericMatch(t, s) IN
         IF m.ok THEN <<m.group>> \o FindAllGeneric(t, m.end + 1)
         ELSE FindAllGeneric(t, s + 1)

\* an extraction that takes the first tagged block
ExtractFirstTagged(t) ==
    LET python_blocks == FindAllPython(t, 1)
        generic_blocks == FindAllGeneric(t, 1)
    IN
    IF python_blocks # <<>> THEN Strip(python_blocks[1])
    ELSE IF generic_blocks # <<>> THEN Strip(generic_blocks[Len(generic_blocks)])
    ELSE Strip(t)

\* the function of lines 70-84, for a response_text that is text
extract_code_from_response(t) ==
    LET python_blocks == FindAllPython(t, 1)
        generic_blocks == FindAllGeneric(t, 1)
    IN
    IF python_blocks # <<>> THEN Strip(python_blocks[Len(python_blocks)])
    ELSE IF generic_blocks # <<>> THEN Strip(generic_blocks[Len(generic_blocks)])
    ELSE Strip(t)

\* a classification that looks for the marker before the exit status
ClassifyMarkerFirst(returncode, stdout, stderr) ==
    IF Contains(stderr, "SyntaxError")
    THEN [success |-> FALSE, error_type |-> "syntax", output |-> stderr]
    ELSE IF returncode # 0
    THEN [success |-> FALSE, error_type |-> "runtime", output |-> stderr]
    ELSE [success |-> TRUE, error_type |-> "none", output |-> stdout]

\* a classification that names no error kind for a crash without the marker
ClassifyCrashUnnamed(returncode, stdout, stderr) ==
    IF returncode # 0 THEN
        IF Contains(stderr, "SyntaxError")
        THEN [success |-> FALSE, error_type |-> "syntax", output |-> stderr]
        ELSE [success |-> FALSE, error_type |-> "none", output |-> stderr]
    ELSE [success |-> TRUE, error_type |-> "none", output |-> stdout]

\* the classification of a finished process, lines 179-185
Classify(returncode, stdout, stderr) ==
    IF returncode # 0 THEN
        IF Contains(stderr, "SyntaxError")
        THEN [success |-> FALSE, error_type |-> "syntax", output |-> stderr]
        ELSE [success |-> FALSE, error_type |-> "runtime", output |-> stderr]
    ELSE [success |-> TRUE, error_type |-> "none", output |-> stdout]

\* MODEL_PRICING, lines 26-32: prices per million tokens, in cents
MODEL_PRICING ==
    { [model |-> <<"c", "l", "a", "u", "d", "e", "-", "o", "p", "u", "s", "-", "4", "-", "5",
                   "-", "2", "0", "2", "5", "1", "1", "0", "1">>,
       input |-> 500, output |-> 2500],
      [model |-> <<"c", "l", "a", "u", "d", "e", "-", "s", "o", "n", "n", "e", "t", "-", "4",
                   "-", "2", "0", "2", "5", "0", "5", "1", "4">>,
       input |-> 300, output |-> 1500],
      [model |-> <<"g", "p", "t", "-", "4", ".", "1">>, input |-> 200, output |-> 800],
      [model |-> <<"o", "3">>, input |-> 200, output |-> 800] }

\* a lookup whose default is the cheapest tier of the table
PricingGetCheapDefault(m) ==
    LET hits == { e \in MODEL_PRICING : e.model = m } IN
    IF hits # {} THEN CHOOSE e \in hits : TRUE
    ELSE [model |-> m, input |-> 200, output |-> 800]

\* MODEL_PRICING.get(model, {"input": 5.00, "output": 25.00}), line 334
PricingGet(m) ==
    LET hits == { e \in MODEL_PRICING : e.model = m } IN
    IF hits # {} THEN CHOOSE e \in hits : TRUE
    ELSE [model |-> m, input |-> 500, output |-> 2500]

\* lines 332-337: (input_cost, output_cost)
calculate_cost(m, in_tokens, out_tokens) ==
    LET pricing == PricingGet(m) IN
    [input_cost |-> in_tokens * pricing.input,
     output_cost |-> out_tokens * pricing.output]

\* the exceptions a failed generation call raises: the client's API error, or
\* IndexError on a response without content blocks
GenExceptions == {"APIError", "IndexError"}

\* the classes `except Exception` catches, among those the model raises
ExceptionClasses ==
    {"ValueError", "TypeError", "AttributeError", "JSONDecodeError"} \cup GenExceptions

\* a handler that catches the client's errors only
CaughtGenerationErrorsOnly(c) == c \in GenExceptions

\* `except Exception as e:` at line 297
Caught(c) == c \in ExceptionClasses

\* a handler that does not know the problem's id
ApiErrorReturnUnknownId(pid) ==
    [result |-> [problem_id |-> "unknown", passed |-> FALSE, error_type |-> "api_error"],
     input_tokens |-> 0, output_tokens |-> 0]

\* a handler that classifies the failure as a runtime error
ApiErrorReturnAsRuntime(pid) ==
    [result |-> [problem_id |-> pid, passed |-> FALSE, error_type |-> "runtime"],
     input_tokens |-> 0, output_tokens |-> 0]

\* a handler that returns the token counts the locals hold
ApiErrorReturnKeepsTokens(pid) ==
    [result |-> [problem_id |-> pid, passed |-> FALSE, error_type |-> "api_error"],
     input_tokens |-> input_tokens, output_tokens |-> output_tokens]

\* the value the handler at lines 297-309 returns
ApiErrorReturn(pid) ==
    [result |-> [problem_id |-> pid, passed |-> FALSE, error_type |-> "api_error"],
     input_tokens |-> 0, output_tokens |-> 0]

----
\* Values of the locals before they are assigned

NoRet ==
    [result |-> [problem_id |-> "-", passed |-> FALSE, error_type |-> "-"],
     input_tokens |-> 0, output_tokens |-> 0]
NoRtcRet == [passed |-> FALSE, error_type |-> "-"]
NoExecRet == [success |-> FALSE, error_type |-> "-", output |-> <<>>]
\* result before subprocess.run has returned, or when it raised
NoResult == [exited |-> FALSE, returncode |-> 0, stdout |-> <<>>, stderr |-> <<>>]
\* the CompletedProcess subprocess.run returns
CompletedProcess(returncode, stdout, stderr) ==
    [exited |-> TRUE, returncode |-> returncode, stdout |-> stdout, stderr |-> stderr]
NoProblem ==
    [question_id |-> "absent", public_test_cases |-> NoneField,
     private_test_cases |-> NoneField]
NoReport ==
    [sample_size |-> 0, passed_count |-> 0, total_count |-> 0,
     score |-> [num |-> 0, den |-> 1], input_tokens |-> 0, output_tokens |-> 0,
     problems |-> <<>>]
NoCalls == [openai |-> 0, anthropic |-> 0]
NoExc == [class |-> "none", line |-> 0]

\* the locals of evaluate_problem and run_test_cases, unassigned
LocalsInit ==
    /\ problem_id = "-"
    /\ gen = "none"
    /\ response_text = NoText
    /\ input_tokens = 0
    /\ output_tokens = 0
    /\ k = 0
    /\ proc = "none"
    /\ children = FALSE
    /\ result = NoResult
    /\ exec_ret = NoExecRet
    /\ rtc_ret = NoRtcRet
    /\ ret = NoRet
    /\ exc = NoExc
    /\ fed = <<>>
    /\ outcomes = <<>>
    /\ spawned = 0
    /\ gen_calls = NoCalls

\* the state of main, unassigned
MainInit ==
    /\ problems = <<>>
    /\ i = 0
    /\ results = <<>>
    /\ total_input_tokens = 0
    /\ total_output_tokens = 0
    /\ input_cost = 0
    /\ output_cost = 0
    /\ report = NoReport
    /\ written = 0

----
\* dagster_definitions/sensors.py and resources.py: values

\* datetime.now(timezone.utc) at the evaluations: instants of May 2024, in the
\* scheduler's order; weekday is dt.weekday() (Monday is 0)
Instant(day, hour, minute, weekday) ==
    [year |-> 2024, month |-> 5, day |-> day, hour |-> hour, minute |-> minute,
     weekday |-> weekday]
Instants ==
    << Instant(1, 10, 0, 2), Instant(1, 10, 59, 2), Instant(1, 12, 0, 2),
       Instant(2, 0, 10, 3) >>

\* the position of an instant on the scheduler's clock, in minutes
ClockMinutes(t) ==
    ((((t.year * 12 + t.month) * 31 + t.day) * 24 + t.hour) * 60) + t.minute

\* Formatted times and cursor keys are sequences of fields in the order of the
\* format: a zero-padded number field compares as its number does.
\* now.strftime("%Y-%m-%d-%H-%M")
CurrentMinute(t) == <<t.year, t.month, t.day, t.hour, t.minute>>
\* now.strftime("%Y-%m-%d-%H")
Cutoff(t) == <<t.year, t.month, t.day, t.hour>>
\* cutoff[:10], the ten characters of %Y-%m-%d
CutoffDate(cutoff) == SubSeq(cutoff, 1, 3)
\* f"{current_minute}:{model_id}"
DedupKey(current_minute, model_id) == Append(current_minute, model_id)

\* k > c for two strings: the order of the first field that differs, and a
\* proper extension is greater than its prefix
RECURSIVE StrGreater(_, _)
StrGreater(a, b) ==
    IF a = <<>> THEN FALSE
    ELSE IF b = <<>> THEN TRUE
    ELSE IF Head(a) # Head(b) THEN Head(a) > Head(b)
    ELSE StrGreater(Tail(a), Tail(b))

\* line 71: {k: v for k, v in cursor.items() if k.startswith(cutoff) or k > cutoff[:10]}
CleanUp(keys, cutoff) ==
    { key \in keys : StartsWith(key, cutoff) \/ StrGreater(key, CutoffDate(cutoff)) }

\* context.cursor: None before the first update_cursor, then the JSON text of
\* a dict whose values are all true
NoCursor == [is_none |-> TRUE, keys |-> {}]
\* json.dumps(cursor)
CursorDumps(keys) == [is_none |-> FALSE, keys |-> keys]
\* json.loads(context.cursor or "{}")
CursorLoads(c) == IF c.is_none THEN {} ELSE c.keys

\* resources.py lines 65-73: the model ids MODEL_WORKFLOWS has a workflow for
MODEL_WORKFLOWS ==
    { "claude-opus-4-5", "claude-sonnet-4", "gpt-4-1", "gpt-5-1", "gpt-5-2", "o3",
      "echo-test" }

\* A cron expression is its fields, as str.split() gives them; a field is a
\* sequence of tokens: "*", "/", "-", ",", a decimal numeral, or other text.
Numerals ==
    ("0" :> 0) @@ ("1" :> 1) @@ ("3" :> 3) @@ ("5" :> 5) @@ ("10" :> 10) @@ ("12" :> 12)

Returns(v) == [raises |-> "none", value |-> v]
Raises(c) == [raises |-> c, value |-> FALSE]

\* int(part): the number a numeral stands for; ValueError for any other text
IntOf(part) ==
    IF Len(part) = 1 /\ part[1] \in DOMAIN Numerals
    THEN Returns(Numerals[part[1]])
    ELSE Raises("ValueError")

\* sep in field
HasToken(field, sep) == \E j \in 1..Len(field) : field[j] = sep

\* field.split(sep)
RECURSIVE Split(_, _)
Split(field, sep) ==
    IF ~HasToken(field, sep) THEN <<field>>
    ELSE LET p == CHOOSE j \in 1..Len(field) :
                    field[j] = sep /\ \A q \in 1..(j - 1) : field[q] # sep
         IN <<SubSeq(field, 1, p - 1)>> \o Split(SubSeq(field, p + 1, Len(field)), sep)

\* lines 22-36: matches_field(field, value, max_val); max_val is not read
matches_field(field, value, max_val) ==
    IF field = <<"*">> THEN Returns(TRUE)
    ELSE IF HasToken(field, "/")
    THEN LET parts == Split(field, "/") IN
         IF Len(parts) # 2 THEN Raises("ValueError")
         ELSE LET step == IntOf(parts[2]) IN
              IF step.raises # "none" THEN step
              ELSE IF parts[1] = <<"*">>
              THEN IF step.value = 0 THEN Raises("ZeroDivisionError")
                   ELSE Returns(value % step.value = 0)
              ELSE Returns(FALSE)
    ELSE IF HasToken(field, "-")
    THEN LET parts == Split(field, "-") IN
         IF \/ Len(parts) # 2
            \/ \E j \in 1..Len(parts) : IntOf(parts[j]).raises # "none"
         THEN Raises("ValueError")
         ELSE Returns(IntOf(parts[1]).value <= value /\ value <= IntOf(parts[2]).value)
    ELSE IF HasToken(field, ",")
    THEN LET parts == Split(field, ",") IN
         IF \E j \in 1..Len(parts) : IntOf(parts[j]).raises # "none"
         THEN Raises("ValueError")
         ELSE Returns(\E j \in 1..Len(parts) : IntOf(parts[j]).value = value)
    ELSE LET number == IntOf(field) IN
         IF number.raises # "none" THEN number ELSE Returns(value = number.value)

\* lines 41-47: the conjunction is evaluated from the left and stops at the
\* first field that does not match
RECURSIVE AllFieldsMatch(_, _, _, _)
AllFieldsMatch(parts, values, max_vals, j) ==
    IF j > Len(parts) THEN Returns(TRUE)
    ELSE LET matched == matches_field(parts[j], values[j], max_vals[j]) IN
         IF matched.raises # "none" THEN matched
         ELSE IF ~matched.value THEN Returns(FALSE)
         ELSE AllFieldsMatch(parts, values, max_vals, j + 1)

\* lines 11-47: cron_matches(cron_expression, dt)
cron_matches(cron_expression, dt) ==
    IF Len(cron_expression) # 5 THEN Returns(FALSE)
    ELSE LET cron_weekday == (dt.weekday + 1) % 7
         IN AllFieldsMatch(cron_expression,
                <<dt.minute, dt.hour, dt.day, dt.month, cron_weekday>>,
                <<59, 23, 31, 12, 6>>, 1)

\* cron expressions the API holds: every minute; minute 0 of the hours 10-12;
\* every fifth minute of the days 1,5 of the month; a day of the week by its
\* name; four fields only
EveryMinute == << <<"*">>, <<"*">>, <<"*">>, <<"*">>, <<"*">> >>
OnTheHour == << <<"0">>, <<"10", "-", "12">>, <<"*">>, <<"*">>, <<"*">> >>
EveryFifth == << <<"*", "/", "5">>, <<"*">>, <<"1", ",", "5">>, <<"*">>, <<"*">> >>
Wednesdays == << <<"*">>, <<"*">>, <<"*">>, <<"*">>, <<"WED">> >>
FourFields == << <<"*">>, <<"*">>, <<"*">>, <<"*">> >>

\* a schedule of the API's answer; model_id "" and cron_expression <<>> stand
\* for a value that is absent, None or empty. sample_size goes into the
\* workflow inputs only and is left out.
Schedule(is_paused, model_id, cron_expression) ==
    [is_paused |-> is_paused, model_id |-> model_id, cron_expression |-> cron_expression]
ScheduleRecords ==
    { Schedule(FALSE, "o3", EveryMinute),
      Schedule(FALSE, "gpt-4-1", OnTheHour),
      Schedule(FALSE, "echo-test", EveryFifth),
      Schedule(FALSE, "gpt-5-1", Wednesdays),
      Schedule(TRUE, "gpt-4-1", EveryMinute),
      Schedule(FALSE, "llama", EveryMinute),
      Schedule(FALSE, "", FourFields),
      Schedule(FALSE, "o3", FourFields) }

\* the lists get_schedules returns
RECURSIVE ListsOf(_, _)
ListsOf(records, len) ==
    IF len = 0 THEN { <<>> }
    ELSE LET shorter == ListsOf(records, len - 1) IN
         shorter \cup { Append(l, r) : l \in shorter, r \in records }
ScheduleLists == ListsOf(ScheduleRecords, MaxSchedules)

\* the sensor before its first evaluation: the scheduler holds no cursor
SensorInit ==
    sensor =
        [now |-> Instants[1],        \* now, the time of the evaluation
         context_cursor |-> NoCursor, \* context.cursor, kept by the scheduler between evaluations
         cursor |-> {},              \* cursor: the keys of the dict
         schedules |-> <<>>,         \* schedules
         taken |-> 0,                \* number of schedules the loop has taken so far
         triggered |-> <<>>,         \* triggered
         ret |-> "-",                \* the value the evaluation returned
         evaluations |-> 0,          \* number of evaluations started
         trigger_log |-> <<>>,       \* the trigger_workflow calls of this evaluation: model id, outcome
         dispatched |-> EmptyBag,    \* the dispatches that succeeded, over all evaluations, by key
         cursor_updates |-> 0]       \* number of context.update_cursor calls of this evaluation

\* the locals of the sensor evaluation, by their names in the source
now == sensor.now
cursor == sensor.cursor
schedules == sensor.schedules
triggered == sensor.triggered

----
\* The entry points of run_benchmark.py

\* the generated code a direct caller of run_test_cases passes
Codes == { <<"x=1">>, <<>> }

\* the test-case lists a direct caller of run_test_cases passes
VerifierLists == CaseLists \cup { <<NonDict>>, <<c1, NonDict>>, <<c4>>, <<c5, c4>> }

\* python run_benchmark.py --model M: main() starts with the defaults of its locals
InitMain ==
    /\ entry = "main"
    /\ pc = "main_start"
    /\ model \in Models
    /\ anthropic_client = FALSE
    /\ openai_client = FALSE
    /\ problem = NoProblem
    /\ code = <<>>
    /\ test_cases = <<>>
    /\ LocalsInit
    /\ MainInit
    /\ SensorInit

\* a direct call evaluate_problem(problem, anthropic_client, openai_client, model)
InitEvaluate ==
    /\ entry = "evaluate_problem"
    /\ pc = "eval_entry"
    /\ model \in Models
    /\ anthropic_client \in BOOLEAN
    /\ openai_client \in BOOLEAN
    /\ problem \in Problems
    /\ code = <<>>
    /\ test_cases = <<>>
    /\ LocalsInit
    /\ MainInit
    /\ SensorInit

\* a direct call run_test_cases(code, test_cases)
InitVerifier ==
    /\ entry = "run_test_cases"
    /\ pc = "rtc_loop"
    /\ model = <<>>
    /\ anthropic_client = FALSE
    /\ openai_client = FALSE
    /\ problem = NoProblem
    /\ code \in Codes
    /\ test_cases \in VerifierLists
    /\ LocalsInit
    /\ MainInit
    /\ SensorInit

\* a direct call extract_code_from_response(response_text)
InitExtract ==
    /\ entry = "extract_code_from_response"
    /\ pc = "extract"
    /\ model = <<>>
    /\ anthropic_client = FALSE
    /\ openai_client = FALSE
    /\ problem = NoProblem
    /\ code = <<>>
    /\ test_cases = <<>>
    /\ response_text \in { Text(t) : t \in ResponseTexts }
    /\ problem_id = "-"
    /\ gen = "none"
    /\ input_tokens = 0
    /\ output_tokens = 0
    /\ k = 0
    /\ proc = "none"
    /\ children = FALSE
    /\ result = NoResult
    /\ exec_ret = NoExecRet
    /\ rtc_ret = NoRtcRet
    /\ ret = NoRet
    /\ exc = NoExc
    /\ fed = <<>>
    /\ outcomes = <<>>
    /\ spawned = 0
    /\ gen_calls = NoCalls
    /\ MainInit
    /\ SensorInit

Init == InitMain \/ InitEvaluate \/ InitVerifier \/ InitExtract

----
\* evaluate_problem

argVars == <<entry, model, anthropic_client, openai_client>>
mainVars ==
    <<problems, i, results, total_input_tokens, total_output_tokens, input_cost,
      output_cost, report, written>>
\* the locals and logs of run_test_cases and of the executor
verifierVars == <<k, proc, children, result, exec_ret, rtc_ret, fed, outcomes, spawned>>

\* An exception of class c leaves the statement at line l. Inside evaluate_problem
\* the statement is in the try block of lines 228-295 and the handler of lines
\* 297-309 returns; in a direct call of another function it reaches the caller.
Raise(c, l) ==
    /\ exc' = [class |-> c, line |-> l]
    /\ IF entry \in {"main", "evaluate_problem"} /\ Caught(c)
       THEN /\ ret' = ApiErrorReturn(problem_id)
            /\ pc' = "eval_return"
       ELSE /\ pc' = "raised"
            /\ UNCHANGED ret

\* an early return that drops the generation's token counts
PassedReturnWithoutTokens(pid, in_tokens, out_tokens) ==
    [result |-> [problem_id |-> pid, passed |-> TRUE, error_type |-> "none"],
     input_tokens |-> 0, output_tokens |-> 0]

\* the value returned at lines 271-280
PassedReturn(pid, in_tokens, out_tokens) ==
    [result |-> [problem_id |-> pid, passed |-> TRUE, error_type |-> "none"],
     input_tokens |-> in_tokens, output_tokens |-> out_tokens]

\* a return that reports the tokens of the problems that passed only
VerifiedReturnTokensIfPassed(pid, verdict, in_tokens, out_tokens) ==
    [result |-> [problem_id |-> pid, passed |-> verdict.passed,
                 error_type |-> verdict.error_type],
     input_tokens |-> IF verdict.passed THEN in_tokens ELSE 0,
     output_tokens |-> IF verdict.passed THEN out_tokens ELSE 0]

\* the value returned at lines 286-295
VerifiedReturn(pid, verdict, in_tokens, out_tokens) ==
    [result |-> [problem_id |-> pid, passed |-> verdict.passed,
                 error_type |-> verdict.error_type],
     input_tokens |-> in_tokens, output_tokens |-> out_tokens]

\* items put in front of the list instead of behind it
ExtendAtFront(list, items) == items \o list

\* test_cases.extend(items), lines 258 and 266
Extend(list, items) == list \o items

\* lines 225-229: problem_id, start_time, prompt
EvalEntry ==
    /\ pc = "eval_entry"
    /\ problem_id' = ProblemIdOf(problem)
    /\ pc' = "call_api"
    /\ UNCHANGED <<argVars, mainVars, verifierVars, problem, gen, response_text,
                   input_tokens, output_tokens, code, test_cases, ret, exc, gen_calls>>
    /\ UNCHANGED sensor

\* lines 232-241: the provider is chosen by the model id; a missing client raises
\* ValueError, otherwise call_openai / call_anthropic sends the request
CallApi ==
    /\ pc = "call_api"
    /\ IF UsesOpenAI(model)
       THEN IF ~openai_client
            THEN Raise("ValueError", 234) /\ UNCHANGED <<gen, gen_calls>>
            ELSE /\ gen' = "openai"
                 /\ gen_calls' = [gen_calls EXCEPT !.openai = @ + 1]
                 /\ pc' = "gen_wait"
                 /\ UNCHANGED <<ret, exc>>
       ELSE IF ~anthropic_client
            THEN Raise("ValueError", 238) /\ UNCHANGED <<gen, gen_calls>>
            ELSE /\ gen' = "anthropic"
                 /\ gen_calls' = [gen_calls EXCEPT !.anthropic = @ + 1]
                 /\ pc' = "gen_wait"
                 /\ UNCHANGED <<ret, exc>>
    /\ UNCHANGED <<argVars, mainVars, verifierVars, problem, problem_id, response_text,
                   input_tokens, output_tokens, code, test_cases>>
    /\ UNCHANGED sensor

\* lines 121-131 and 134-156: the request returns (response_text, input_tokens,
\* output_tokens), or fails. Only the OpenAI message content can be None.
GenReturn ==
    /\ pc = "gen_wait"
    /\ gen' = "none"
    /\ \/ \E r \in Responses, u \in Usages :
            /\ r.is_none => gen = "openai"
            /\ response_text' = r
            /\ input_tokens' = u[1]
            /\ output_tokens' = u[2]
            /\ pc' = "extract"
            /\ UNCHANGED <<ret, exc>>
       \/ \E c \in GenExceptions :
            /\ Raise(c, IF gen = "openai" THEN 235 ELSE 239)
            /\ UNCHANGED <<response_text, input_tokens, output_tokens>>
    /\ UNCHANGED <<argVars, mainVars, verifierVars, problem, problem_id, code,
                   test_cases, gen_calls>>
    /\ UNCHANGED sensor

\* line 244: re.findall raises TypeError on None. In evaluate_problem
\* response_text is not read after this line and is dropped from the state; a
\* direct caller of extract_code_from_response gets the code back.
ExtractCode ==
    /\ pc = "extract"
    /\ IF response_text.is_none
       THEN Raise("TypeError", 244) /\ UNCHANGED code
       ELSE /\ code' = extract_code_from_response(response_text.text)
            /\ pc' = IF entry = "extract_code_from_response"
                     THEN "extract_return" ELSE "parse_public"
            /\ UNCHANGED <<ret, exc>>
    /\ response_text' = IF entry = "extract_code_from_response"
                        THEN response_text ELSE NoText
    /\ UNCHANGED <<argVars, mainVars, verifierVars, problem, problem_id, gen,
                   input_tokens, output_tokens, test_cases, gen_calls>>
    /\ UNCHANGED sensor

\* lines 247-248 and 252-258
ParsePublic ==
    /\ pc = "parse_public"
    /\ LET parsed == ParseField(problem.public_test_cases) IN
       IF parsed.raises # "none"
       THEN Raise(parsed.raises, 258) /\ test_cases' = <<>>
       ELSE /\ test_cases' = Extend(<<>>, parsed.items)
            /\ pc' = "parse_private"
            /\ UNCHANGED <<ret, exc>>
    /\ UNCHANGED <<argVars, mainVars, verifierVars, problem, problem_id, gen,
                   response_text, input_tokens, output_tokens, code, gen_calls>>
    /\ UNCHANGED sensor

\* lines 249 and 260-266
ParsePrivate ==
    /\ pc = "parse_private"
    /\ LET parsed == ParseField(problem.private_test_cases) IN
       IF parsed.raises # "none"
       THEN Raise(parsed.raises, 266) /\ UNCHANGED test_cases
       ELSE /\ test_cases' = Extend(test_cases, parsed.items)
            /\ pc' = "check_empty"
            /\ UNCHANGED <<ret, exc>>
    /\ UNCHANGED <<argVars, mainVars, verifierVars, problem, problem_id, gen,
                   response_text, input_tokens, output_tokens, code, gen_calls>>
    /\ UNCHANGED sensor

\* lines 268-283: without test cases the problem passes; otherwise
\* run_test_cases(code, test_cases) is called
CheckEmpty ==
    /\ pc = "check_empty"
    /\ IF test_cases = <<>>
       THEN /\ ret' = PassedReturn(problem_id, input_tokens, output_tokens)
            /\ pc' = "eval_return"
       ELSE /\ pc' = "rtc_loop"
            /\ UNCHANGED ret
    /\ UNCHANGED <<argVars, mainVars, verifierVars, problem, problem_id, gen,
                   response_text, input_tokens, output_tokens, code, test_cases, exc,
                   gen_calls>>
    /\ UNCHANGED sensor

\* lines 283-295: the verifier's outcome becomes the ProblemResult
BuildResult ==
    /\ pc = "rtc_return"
    /\ entry # "run_test_cases"
    /\ ret' = VerifiedReturn(problem_id, rtc_ret, input_tokens, output_tokens)
    /\ pc' = "eval_return"
    /\ UNCHANGED <<argVars, mainVars, verifierVars, problem, problem_id, gen,
                   response_text, input_tokens, output_tokens, code, test_cases, exc,
                   gen_calls>>
    /\ UNCHANGED sensor

----
\* run_test_cases and execute_code_with_input

\* a verifier whose final return has the flag inverted
AllPassedInverted == [passed |-> FALSE, error_type |-> "none"]

\* `return True, None`, line 212
AllPassed == [passed |-> TRUE, error_type |-> "none"]

\* a verifier that notes a mismatch and goes on with the next case
CaseVerdictKeepsGoing(executed, expected) ==
    IF ~executed.success
    THEN [continue |-> FALSE, passed |-> FALSE, error_type |-> executed.error_type]
    ELSE [continue |-> TRUE, passed |-> TRUE, error_type |-> "none"]

\* lines 204-210, for the executor's return value and the case's expected
\* output: the value run_test_cases returns, or "continue" when the case passed
CaseVerdict(executed, expected) ==
    IF ~executed.success
    THEN [continue |-> FALSE, passed |-> FALSE, error_type |-> executed.error_type]
    ELSE IF Strip(executed.output) # Strip(expected)
    THEN [continue |-> FALSE, passed |-> FALSE, error_type |-> "wrong_answer"]
    ELSE [continue |-> TRUE, passed |-> TRUE, error_type |-> "none"]

\* lines 198-202 and 212: the loop takes the next test case, reads its fields
\* (a case that is no dict has no get: AttributeError) and calls
\* execute_code_with_input, whose subprocess.run spawns the process, or fails to
\* (OSError, ValueError: caught at line 189); after the last case the verifier
\* returns (True, None)
RunNextCase ==
    /\ pc = "rtc_loop"
    /\ IF k = Len(test_cases)
       THEN /\ rtc_ret' = AllPassed
            /\ pc' = "rtc_return"
            /\ UNCHANGED <<k, proc, exec_ret, ret, exc, fed, outcomes, spawned>>
       ELSE LET test_case == test_cases[k + 1] IN
            /\ k' = k + 1
            /\ UNCHANGED rtc_ret
            /\ IF ~test_case.is_dict
               THEN /\ Raise("AttributeError", 199)
                    /\ UNCHANGED <<proc, exec_ret, fed, outcomes, spawned>>
               ELSE /\ fed' = Append(fed, test_case.input)
                    /\ UNCHANGED <<ret, exc>>
                    /\ \/ /\ proc' = "running"
                          /\ spawned' = spawned + 1
                          /\ pc' = "exec_wait"
                          /\ UNCHANGED <<exec_ret, outcomes>>
                       \/ LET returned == [success |-> FALSE, error_type |-> "runtime",
                                           output |-> <<"OSError">>]
                          IN /\ exec_ret' = returned
                             /\ outcomes' = Append(outcomes, returned)
                             /\ pc' = "rtc_check"
                             /\ UNCHANGED <<proc, spawned>>
    /\ UNCHANGED <<argVars, mainVars, problem, problem_id, gen, response_text,
                   input_tokens, output_tokens, code, test_cases, gen_calls, children,
                   result>>
    /\ UNCHANGED sensor

\* The code run by the sandboxed process is untrusted and PATH is passed on in
\* env (lines 172-176): it can start a process of its own, which inherits the
\* pipes of capture_output and runs on.
SpawnChild ==
    /\ pc = "exec_wait"
    /\ proc = "running"
    /\ ~children
    /\ children' = TRUE
    /\ UNCHANGED <<argVars, mainVars, problem, problem_id, gen, response_text,
                   input_tokens, output_tokens, code, test_cases, k, proc, result,
                   exec_ret, rtc_ret, ret, exc, fed, outcomes, spawned, gen_calls, pc>>
    /\ UNCHANGED sensor

\* a subprocess.run that, after the timeout, reads the pipes to their end
\* before it returns
ExecReturnReadsPipesToEnd ==
    /\ pc = "exec_wait"
    /\ proc = "running"
    /\ proc' = "none"
    /\ ~children
    /\ \/ \E returncode \in {0, 1}, stdout \in Stdouts, stderr \in Stderrs :
            LET returned == Classify(returncode, stdout, stderr) IN
            /\ result' = CompletedProcess(returncode, stdout, stderr)
            /\ exec_ret' = returned
            /\ outcomes' = Append(outcomes, returned)
       \/ LET returned == [success |-> FALSE, error_type |-> "timeout", output |-> <<>>]
          IN /\ result' = NoResult
             /\ exec_ret' = returned
             /\ outcomes' = Append(outcomes, returned)
       \/ LET returned == [success |-> FALSE, error_type |-> "runtime",
                           output |-> <<"UnicodeDecodeError">>]
          IN /\ result' = NoResult
             /\ exec_ret' = returned
             /\ outcomes' = Append(outcomes, returned)
    /\ pc' = "rtc_check"
    /\ UNCHANGED <<argVars, mainVars, problem, problem_id, gen, response_text,
                   input_tokens, output_tokens, code, test_cases, k, rtc_ret, ret, exc,
                   fed, spawned, gen_calls, children>>
    /\ UNCHANGED sensor

\* an executor that starts the process again when the timeout expires
ExecReturnRetriesAfterTimeout ==
    /\ pc = "exec_wait"
    /\ proc = "running"
    /\ spawned < 3
    /\ spawned' = spawned + 1
    /\ UNCHANGED <<argVars, mainVars, problem, problem_id, gen, response_text,
                   input_tokens, output_tokens, code, test_cases, k, rtc_ret, ret, exc,
                   fed, gen_calls, children, proc, result, exec_ret, outcomes, pc>>
    /\ UNCHANGED sensor

\* lines 166-190. subprocess.run returns once the process has exited and its
\* pipes are at end of file, and the result is classified; or the timeout of
\* CODE_EXECUTION_TIMEOUT seconds expires first (TimeoutExpired), which it does
\* when the process runs on or a process it started keeps the pipes open; or
\* subprocess.run raises another exception (the output cannot be decoded). On
\* a timeout subprocess.run kills and reaps the process it started, and no
\* other: the call passes neither start_new_session nor a process group, and
\* nothing in lines 187-188 signals the processes that process started.
ExecReturn ==
    /\ pc = "exec_wait"
    /\ proc = "running"
    /\ proc' = "none"
    /\ \/ /\ ~children
          /\ \E returncode \in {0, 1}, stdout \in Stdouts, stderr \in Stderrs :
                LET returned == Classify(returncode, stdout, stderr) IN
                /\ result' = CompletedProcess(returncode, stdout, stderr)
                /\ exec_ret' = returned
                /\ outcomes' = Append(outcomes, returned)
       \/ LET returned == [success |-> FALSE, error_type |-> "timeout", output |-> <<>>]
          IN /\ result' = NoResult
             /\ exec_ret' = returned
             /\ outcomes' = Append(outcomes, returned)
       \/ LET returned == [success |-> FALSE, error_type |-> "runtime",
                           output |-> <<"UnicodeDecodeError">>]
          IN /\ ~children
             /\ result' = NoResult
             /\ exec_ret' = returned
             /\ outcomes' = Append(outcomes, returned)
    /\ pc' = "rtc_check"
    /\ UNCHANGED <<argVars, mainVars, problem, problem_id, gen, response_text,
                   input_tokens, output_tokens, code, test_cases, k, rtc_ret, ret, exc,
                   fed, spawned, gen_calls, children>>
    /\ UNCHANGED sensor

\* lines 204-210: a failed execution or a mismatch of the stripped outputs
\* returns; otherwise the loop goes on
CheckCase ==
    /\ pc = "rtc_check"
    /\ LET verdict == CaseVerdict(exec_ret, test_cases[k].output) IN
       IF verdict.continue
       THEN /\ pc' = "rtc_loop"
            /\ UNCHANGED rtc_ret
       ELSE /\ rtc_ret' = [passed |-> verdict.passed, error_type |-> verdict.error_type]
            /\ pc' = "rtc_return"
    /\ result' = NoResult
    /\ UNCHANGED <<argVars, mainVars, problem, problem_id, gen, response_text,
                   input_tokens, output_tokens, code, test_cases, k, proc, children,
                   exec_ret, ret, exc, fed, outcomes, spawned, gen_calls>>
    /\ UNCHANGED sensor

----
\* main

\* the locals of evaluate_problem
evalVars ==
    <<problem, problem_id, gen, response_text, input_tokens, output_tokens, code,
      test_cases, ret, exc, gen_calls>>

\* a start that creates no client when the key is missing and goes on
InitClientsWithoutKeyCheck ==
    /\ pc = "main_start"
    /\ \E api_key \in BOOLEAN :
        /\ pc' = "load"
        /\ IF ~api_key
           THEN UNCHANGED <<anthropic_client, openai_client>>
           ELSE IF UsesOpenAI(model)
                THEN openai_client' = TRUE /\ UNCHANGED anthropic_client
                ELSE anthropic_client' = TRUE /\ UNCHANGED openai_client
    /\ UNCHANGED <<entry, model, mainVars, evalVars, verifierVars>>
    /\ UNCHANGED sensor

\* lines 360-375: the client of the provider the model id selects is created
\* from its API key; without the key main exits with status 1
InitClients ==
    /\ pc = "main_start"
    /\ \E api_key \in BOOLEAN :
        IF ~api_key
        THEN /\ pc' = "exit"
             /\ UNCHANGED <<anthropic_client, openai_client>>
        ELSE /\ pc' = "load"
             /\ IF UsesOpenAI(model)
                THEN openai_client' = TRUE /\ UNCHANGED anthropic_client
                ELSE anthropic_client' = TRUE /\ UNCHANGED openai_client
    /\ UNCHANGED <<entry, model, mainVars, evalVars, verifierVars>>
    /\ UNCHANGED sensor

\* lines 378-384: load_problems returns the dataset, or raises and ends main
LoadProblems ==
    /\ pc = "load"
    /\ \/ \E dataset \in Datasets \cup {ScenarioABC} :
            /\ problems' = dataset
            /\ pc' = "loop"
       \/ /\ pc' = "crashed"
          /\ UNCHANGED problems
    /\ i' = 0
    /\ results' = <<>>
    /\ total_input_tokens' = 0
    /\ total_output_tokens' = 0
    /\ UNCHANGED <<argVars, input_cost, output_cost, report, written, evalVars,
                   verifierVars>>
    /\ UNCHANGED sensor

\* a loop that also ends at the first problem that did not pass
LoopDoneOrFailed ==
    \/ i = Len(problems)
    \/ results # <<>> /\ ~results[Len(results)].passed

\* the for loop of line 389 has taken every problem
LoopDone == i = Len(problems)

\* lines 389-398: the loop takes the next problem and calls evaluate_problem
NextProblem ==
    /\ pc = "loop"
    /\ ~LoopDone
    /\ i' = i + 1
    /\ problem' = problems[i + 1]
    /\ pc' = "eval_entry"
    /\ UNCHANGED <<argVars, problems, results, total_input_tokens, total_output_tokens,
                   input_cost, output_cost, report, written, verifierVars, problem_id,
                   gen, response_text, input_tokens, output_tokens, code, test_cases, ret,
                   exc, gen_calls>>
    /\ UNCHANGED sensor

\* a loop that keeps the results of the problems that passed only
AppendResultPassedOnly ==
    /\ pc = "eval_return"
    /\ entry = "main"
    /\ results' = IF ret.result.passed THEN Append(results, ret.result) ELSE results
    /\ total_input_tokens' = total_input_tokens + ret.input_tokens
    /\ total_output_tokens' = total_output_tokens + ret.output_tokens
    /\ pc' = "loop"
    /\ problem' = NoProblem
    /\ code' = <<>>
    /\ test_cases' = <<>>
    /\ problem_id' = "-"
    /\ gen' = "none"
    /\ response_text' = NoText
    /\ input_tokens' = 0
    /\ output_tokens' = 0
    /\ k' = 0
    /\ proc' = "none"
    /\ children' = FALSE
    /\ result' = NoResult
    /\ exec_ret' = NoExecRet
    /\ rtc_ret' = NoRtcRet
    /\ ret' = NoRet
    /\ exc' = NoExc
    /\ fed' = <<>>
    /\ outcomes' = <<>>
    /\ spawned' = 0
    /\ gen_calls' = NoCalls
    /\ UNCHANGED <<argVars, problems, i, input_cost, output_cost, report, written>>
    /\ UNCHANGED sensor

\* lines 393-404: the returned result is appended and the tokens are added. The
\* locals of the finished call no longer exist.
AppendResult ==
    /\ pc = "eval_return"
    /\ entry = "main"
    /\ results' = Append(results, ret.result)
    /\ total_input_tokens' = total_input_tokens + ret.input_tokens
    /\ total_output_tokens' = total_output_tokens + ret.output_tokens
    /\ pc' = "loop"
    /\ problem' = NoProblem
    /\ code' = <<>>
    /\ test_cases' = <<>>
    /\ problem_id' = "-"
    /\ gen' = "none"
    /\ response_text' = NoText
    /\ input_tokens' = 0
    /\ output_tokens' = 0
    /\ k' = 0
    /\ proc' = "none"
    /\ children' = FALSE
    /\ result' = NoResult
    /\ exec_ret' = NoExecRet
    /\ rtc_ret' = NoRtcRet
    /\ ret' = NoRet
    /\ exc' = NoExc
    /\ fed' = <<>>
    /\ outcomes' = <<>>
    /\ spawned' = 0
    /\ gen_calls' = NoCalls
    /\ UNCHANGED <<argVars, problems, i, input_cost, output_cost, report, written>>
    /\ UNCHANGED sensor

\* a count that takes every result for a pass
PassedCountOfAll(rs) == Len(rs)

\* sum(1 for r in results if r.passed)
PassedCount(rs) == Cardinality({ j \in 1..Len(rs) : rs[j].passed })

\* a score without the guard against an empty run
ScoreUnguarded(passed_count, total_count) ==
    [num |-> passed_count, den |-> total_count]

\* passed_count / total_count if total_count > 0 else 0.0, as a fraction
Score(passed_count, total_count) ==
    IF total_count > 0 THEN [num |-> passed_count, den |-> total_count]
    ELSE [num |-> 0, den |-> 1]

\* lines 406-427: the statistics, the costs and the BenchmarkResults object
BuildReport ==
    /\ pc = "loop"
    /\ LoopDone
    /\ LET passed_count == PassedCount(results)
           total_count == Len(results)
           cost == calculate_cost(model, total_input_tokens, total_output_tokens)
       IN /\ input_cost' = cost.input_cost
          /\ output_cost' = cost.output_cost
          /\ report' = [sample_size |-> total_count,
                        passed_count |-> passed_count,
                        total_count |-> total_count,
                        score |-> Score(passed_count, total_count),
                        input_tokens |-> total_input_tokens,
                        output_tokens |-> total_output_tokens,
                        problems |-> results]
    /\ pc' = "write"
    /\ UNCHANGED <<argVars, problems, i, results, total_input_tokens,
                   total_output_tokens, written, evalVars, verifierVars>>
    /\ UNCHANGED sensor

\* lines 429-432: the report is written to args.output
WriteReport ==
    /\ pc = "write"
    /\ written' = written + 1
    /\ pc' = "done"
    /\ UNCHANGED <<argVars, problems, i, results, total_input_tokens,
                   total_output_tokens, input_cost, output_cost, report, evalVars,
                   verifierVars>>
    /\ UNCHANGED sensor

----
\* benchmark_schedule_sensor

\* everything of run_benchmark.py but pc and exc
benchmarkVars ==
    <<model, anthropic_client, openai_client, mainVars, verifierVars, problem,
      problem_id, gen, response_text, input_tokens, output_tokens, code, test_cases,
      ret, gen_calls>>

\* the scheduler evaluates the sensor, for the first time or after an
\* evaluation that returned or raised
InitSensor ==
    /\ entry = "benchmark_schedule_sensor"
    /\ pc = "sensor_idle"
    /\ model = <<>>
    /\ anthropic_client = FALSE
    /\ openai_client = FALSE
    /\ problem = NoProblem
    /\ code = <<>>
    /\ test_cases = <<>>
    /\ LocalsInit
    /\ MainInit
    /\ SensorInit

\* lines 63-71: an evaluation starts: the time is read, the cursor is loaded
\* and cleaned up. The clock of the scheduler does not go back.
SensorStart ==
    /\ entry = "benchmark_schedule_sensor"
    /\ pc \in {"sensor_idle", "sensor_return", "raised"}
    /\ sensor.evaluations < MaxEvaluations
    /\ \E j \in 1..Len(Instants) :
        /\ ClockMinutes(Instants[j]) >= ClockMinutes(now)
        /\ sensor' =
            [sensor EXCEPT
                !.evaluations = @ + 1,
                !.now = Instants[j],
                !.cursor = CleanUp(CursorLoads(sensor.context_cursor),
                                   Cutoff(Instants[j])),
                !.schedules = <<>>,
                !.taken = 0,
                !.triggered = <<>>,
                !.ret = "-",
                !.trigger_log = <<>>,
                !.cursor_updates = 0]
    /\ exc' = NoExc
    /\ pc' = "get_schedules"
    /\ UNCHANGED <<entry, benchmarkVars>>

\* a handler that logs the failure and goes on to the end of the function
GetSchedulesFailureFallsThrough ==
    /\ pc = "get_schedules"
    /\ \/ \E answer \in ScheduleLists :
            /\ sensor' = [sensor EXCEPT !.schedules = answer]
            /\ pc' = "for_schedule"
       \/ /\ sensor' = [sensor EXCEPT !.ret = "skip_api_error"]
          /\ pc' = "update_cursor"
    /\ UNCHANGED <<entry, exc, benchmarkVars>>

\* lines 73-79: benchmark_api.get_schedules() answers, or raises (HTTPError as
\* RuntimeError, URLError, a body that is no JSON object) and the evaluation
\* returns SkipReason("API error: ...")
GetSchedules ==
    /\ pc = "get_schedules"
    /\ \/ \E answer \in ScheduleLists :
            /\ sensor' = [sensor EXCEPT !.schedules = answer]
            /\ pc' = "for_schedule"
       \/ /\ sensor' = [sensor EXCEPT !.ret = "skip_api_error"]
          /\ pc' = "sensor_return"
    /\ UNCHANGED <<entry, exc, benchmarkVars>>

\* lines 81-106: the loop takes the next schedule and skips it when it is
\* paused, lacks a model id or a cron expression, does not match the time, was
\* triggered this minute or has no workflow; cron_matches can raise, outside
\* any try block; otherwise github.trigger_workflow sends the request
ForSchedule ==
    /\ pc = "for_schedule"
    /\ IF sensor.taken = Len(schedules)
       THEN /\ pc' = "update_cursor"
            /\ UNCHANGED <<sensor, exc, ret>>
       ELSE LET schedule == schedules[sensor.taken + 1]
                model_id == schedule.model_id
                cron_expr == schedule.cron_expression
                matched == cron_matches(cron_expr, now)
                dedup_key == DedupKey(CurrentMinute(now), model_id)
            IN /\ sensor' = [sensor EXCEPT !.taken = @ + 1]
               /\ IF schedule.is_paused \/ model_id = "" \/ cron_expr = <<>>
                  THEN pc' = "for_schedule" /\ UNCHANGED <<exc, ret>>
                  ELSE IF matched.raises # "none"
                  THEN Raise(matched.raises, 93)
                  ELSE IF \/ ~matched.value
                          \/ dedup_key \in cursor
                          \/ model_id \notin MODEL_WORKFLOWS
                  THEN pc' = "for_schedule" /\ UNCHANGED <<exc, ret>>
                  ELSE pc' = "trigger_wait" /\ UNCHANGED <<exc, ret>>
    /\ UNCHANGED <<entry, model, anthropic_client, openai_client, mainVars,
                   verifierVars, problem, problem_id, gen, response_text, input_tokens,
                   output_tokens, code, test_cases, gen_calls>>

\* a loop that records the key before it knows whether the trigger succeeded
TriggerReturnMarksFirst ==
    /\ pc = "trigger_wait"
    /\ LET model_id == schedules[sensor.taken].model_id
           dedup_key == DedupKey(CurrentMinute(now), model_id)
       IN \/ sensor' =
               [sensor EXCEPT
                   !.triggered = Append(@, model_id),
                   !.cursor = @ \cup {dedup_key},
                   !.dispatched = @ (+) SetToBag({dedup_key}),
                   !.trigger_log = Append(@, [model_id |-> model_id, ok |-> TRUE])]
          \/ sensor' =
               [sensor EXCEPT
                   !.cursor = @ \cup {dedup_key},
                   !.trigger_log = Append(@, [model_id |-> model_id, ok |-> FALSE])]
    /\ pc' = "for_schedule"
    /\ UNCHANGED <<entry, exc, benchmarkVars>>

\* lines 109-126: trigger_workflow returns and the model id and the key are
\* recorded, or it raises (RuntimeError, URLError) and the handler logs it
TriggerReturn ==
    /\ pc = "trigger_wait"
    /\ LET model_id == schedules[sensor.taken].model_id
           dedup_key == DedupKey(CurrentMinute(now), model_id)
       IN \/ sensor' =
               [sensor EXCEPT
                   !.triggered = Append(@, model_id),
                   !.cursor = @ \cup {dedup_key},
                   !.dispatched = @ (+) SetToBag({dedup_key}),
                   !.trigger_log = Append(@, [model_id |-> model_id, ok |-> TRUE])]
          \/ sensor' =
               [sensor EXCEPT
                   !.trigger_log = Append(@, [model_id |-> model_id, ok |-> FALSE])]
    /\ pc' = "for_schedule"
    /\ UNCHANGED <<entry, exc, benchmarkVars>>

\* lines 128-134: the cursor is handed to the scheduler and the evaluation
\* returns None when a workflow was triggered, SkipReason otherwise
UpdateCursor ==
    /\ pc = "update_cursor"
    /\ sensor' =
        [sensor EXCEPT
            !.context_cursor = CursorDumps(cursor),
            !.cursor_updates = @ + 1,
            !.ret = IF triggered # <<>> THEN "none" ELSE "skip_no_match"]
    /\ pc' = "sensor_return"
    /\ UNCHANGED <<entry, exc, benchmarkVars>>

SensorNext ==
    \/ SensorStart
    \/ GetSchedules
    \/ ForSchedule
    \/ TriggerReturn
    \/ UpdateCursor

----
\* Specifications

Next ==
    \/ InitClients
    \/ LoadProblems
    \/ NextProblem
    \/ EvalEntry
    \/ CallApi
    \/ GenReturn
    \/ ExtractCode
    \/ ParsePublic
    \/ ParsePrivate
    \/ CheckEmpty
    \/ RunNextCase
    \/ SpawnChild
    \/ ExecReturn
    \/ CheckCase
    \/ BuildResult
    \/ AppendResult
    \/ BuildReport
    \/ WriteReport

\* every entry point: main, or a direct call of evaluate_problem, run_test_cases
\* or extract_code_from_response
Spec == Init /\ [][Next]_vars

\* What the scenario of three problems says of the run: the credentials are
\* there and ScenarioABC is loaded; the generation calls of A and B return text
\* and no step of theirs raises; every process run for a test case exits with
\* status zero and prints the expected output; the generation call of C fails.
Scenario ==
    /\ pc \notin {"exit", "crashed"}
    /\ pc \notin {"main_start", "load"} => problems = ScenarioABC
    /\ problem_id \in {"q1", "q2"} =>
        /\ exc.class = "none"
        /\ pc = "extract" => ~response_text.is_none
    /\ problem_id = "q3" /\ pc \notin {"call_api", "gen_wait"} =>
        exc.class \in GenExceptions /\ exc.line \in {235, 239}
    /\ ~children
    /\ \A j \in 1..Len(outcomes) :
        /\ outcomes[j].success
        /\ Strip(outcomes[j].output) = Strip(test_cases[j].output)

\* the runs of main that go as the scenario says
ScenarioSpec == InitMain /\ [][Next /\ Scenario']_vars

\* A run of main. The interpreter runs one thread and takes its next step
\* whenever there is one; a generation call returns or fails and
\* subprocess.run returns at the latest when its timeout expires.
LiveSpec == InitMain /\ [][Next]_vars /\ WF_vars(Next)

\* The sensor under the scheduler: one evaluation at a time, each started after
\* the one before has returned or raised.
SensorSpec == InitSensor /\ [][SensorNext]_vars

----
\* Properties

\* the call in progress is, or is made by, evaluate_problem
InEvaluate == entry \in {"main", "evaluate_problem"}

\* the generation call of this evaluate_problem call failed
GenFailed == exc.class \in GenExceptions /\ exc.line \in {235, 239}

\* C1: evaluate_problem never propagates an exception. Whatever raises inside it
\* (missing client, generation call, code extraction, test-case parsing,
\* verification), it returns a ProblemResult with passed = false and
\* error_type = "api_error".
C1_NeverPropagates ==
    InEvaluate =>
        /\ pc # "raised"
        /\ exc.class # "none" =>
            /\ pc = "eval_return"
            /\ ret.result.passed = FALSE
            /\ ret.result.error_type = "api_error"

\* a JSON string that decodes to a number raised TypeError in test_cases.extend
C1_Witness ==
    /\ InEvaluate
    /\ pc = "eval_return"
    /\ problem.public_test_cases = StrField("scalar", <<>>)
    /\ exc = [class |-> "TypeError", line |-> 258]
    /\ ret.result.error_type = "api_error"

\* C2 (state part): after a failed generation call evaluate_problem has returned
\* (passed = false, api_error) with zero tokens and no sandboxed process was
\* started for the problem.
C2_FailedGenerationResult ==
    InEvaluate /\ GenFailed =>
        /\ pc = "eval_return"
        /\ ret = [result |-> [problem_id |-> ProblemIdOf(problem), passed |-> FALSE,
                              error_type |-> "api_error"],
                  input_tokens |-> 0, output_tokens |-> 0]
        /\ spawned = 0
        /\ fed = <<>>
        /\ proc = "none"

\* C2 (step part): in a run, the step after a failed generation call appends that
\* result and returns to the loop, and the loop takes the next problem whenever
\* one is left.
C2_RunGoesOn ==
    /\ entry = "main" /\ GenFailed =>
        /\ pc' = "loop"
        /\ results' = Append(results, ret.result)
        /\ i' = i
    /\ pc = "loop" /\ i < Len(problems) =>
        /\ pc' = "eval_entry"
        /\ problem' = problems[i + 1]

\* C2: When the generation call fails for a problem, evaluate_problem returns
\* (passed = false, error_type = "api_error") with input_tokens = 0 and
\* output_tokens = 0, no sandboxed process is started for that problem, and the
\* run goes on to the next problem.
C2_GenerationFailure == [] C2_FailedGenerationResult /\ [][C2_RunGoesOn]_vars

\* the generation call of the first of two problems has failed
C2_Witness ==
    /\ entry = "main"
    /\ GenFailed
    /\ pc = "eval_return"
    /\ i = 1
    /\ Len(problems) = 2

\* C3: For a dataset of N problems the run's result list has exactly N entries
\* and its i-th entry carries the id of the i-th problem, whatever the outcomes:
\* one ProblemResult per problem, in dataset order, and no failing problem stops
\* the later ones from being evaluated.
C3_OneResultPerProblem ==
    entry = "main" =>
        /\ Len(results) = IF pc \in {"loop", "write", "done", "main_start", "load",
                                      "exit", "crashed"}
                          THEN i ELSE i - 1
        /\ \A j \in 1..Len(results) : results[j].problem_id = problems[j].question_id
        /\ pc \in {"write", "done"} => Len(results) = Len(problems)

\* a run whose first problem timed out and whose second problem passed
C3_Witness ==
    /\ entry = "main"
    /\ pc = "done"
    /\ Len(problems) = 2
    /\ results[1].error_type = "timeout"
    /\ results[2].passed

\* C4 (state part): at most one report is written, and a report is built from
\* the results of every problem of the dataset.
C4_OneCompleteReport ==
    entry = "main" =>
        /\ written <= 1
        /\ written = 1 <=> pc = "done"
        /\ pc \in {"write", "done"} =>
            /\ report.problems = results
            /\ Len(report.problems) = Len(problems)
            /\ report.total_count = Len(problems)

\* C4 (step part): the report is assigned only by a step taken after the last
\* problem's result was appended.
C4_BuiltAfterLastResult ==
    report' # report => pc = "loop" /\ Len(results) = Len(problems) /\ results' = results

ErrorKinds == {"syntax", "runtime", "wrong_answer", "timeout", "api_error"}

\* the invariant of a ProblemResult
ResultWellFormed(r) ==
    /\ r.error_type # "none" <=> r.passed = FALSE
    /\ r.error_type \in ErrorKinds \cup {"none"}

\* C5: In every ProblemResult evaluate_problem returns, error_type is non-null
\* if and only if passed is false, and a non-null error_type is one of syntax,
\* runtime, wrong_answer, timeout, api_error.
C5_ErrorTypeIffFailed ==
    /\ InEvaluate /\ pc = "eval_return" => ResultWellFormed(ret.result)
    /\ \A j \in 1..Len(results) : ResultWellFormed(results[j])

\* evaluate_problem returns a result of a process that crashed
C5_Witness ==
    /\ InEvaluate
    /\ pc = "eval_return"
    /\ outcomes # <<>>
    /\ outcomes[Len(outcomes)].output = <<"Traceback", "ValueError">>
    /\ ret.result.passed = FALSE
    /\ ret.result.error_type = "runtime"

\* case j of the verifier's list was executed and passed: the process exited
\* with status zero and its stripped stdout is the stripped expected output
CasePassed(j) ==
    /\ outcomes[j].success
    /\ Strip(outcomes[j].output) = Strip(test_cases[j].output)

\* C6: run_test_cases executes the cases in list order and stops at the first
\* failing case k: the error kind it returns is case k's outcome (the executor's
\* error kind, or wrong_answer on a mismatch), the executor was called exactly k
\* times, on cases 1..k; without a failing case it was called once per case and
\* (true, none) is returned.
C6_StopsAtFirstFailure ==
    pc = "rtc_return" =>
        /\ Len(fed) = k
        /\ Len(outcomes) = k
        /\ \A j \in 1..k : fed[j] = test_cases[j].input
        /\ \A j \in 1..(k - 1) : CasePassed(j)
        /\ IF rtc_ret.passed
           THEN /\ k = Len(test_cases)
                /\ \A j \in 1..k : CasePassed(j)
                /\ rtc_ret.error_type = "none"
           ELSE /\ k >= 1
                /\ ~CasePassed(k)
                /\ rtc_ret.error_type =
                      IF outcomes[k].success THEN "wrong_answer"
                      ELSE outcomes[k].error_type

\* the second of at least three cases timed out
C6_Witness ==
    /\ pc = "rtc_return"
    /\ Len(test_cases) >= 3
    /\ k = 2
    /\ rtc_ret = [passed |-> FALSE, error_type |-> "timeout"]
    /\ Len(fed) = 2

\* C7: run_test_cases called with an empty test-case sequence returns
\* (passed = true, error kind none) for every code string, without calling the
\* sandbox executor.
C7_EmptySequencePasses ==
    entry = "run_test_cases" /\ test_cases = <<>> =>
        /\ pc \in {"rtc_loop", "rtc_return"}
        /\ fed = <<>>
        /\ spawned = 0
        /\ proc = "none"
        /\ pc = "rtc_return" => rtc_ret = [passed |-> TRUE, error_type |-> "none"]

\* run_test_cases has returned for some code and no test case
C7_Witness ==
    /\ entry = "run_test_cases"
    /\ test_cases = <<>>
    /\ code = <<"x=1">>
    /\ pc = "rtc_return"
    /\ rtc_ret.passed

\* the field holds no test case: it is absent, empty, or a malformed or empty
\* encoding
HoldsNoCases(v) ==
    \/ v.kind = "none"
    \/ v.kind = "list" /\ v.items = <<>>
    \/ v.kind = "str" /\ v.doc \in {"empty", "invalid"}
    \/ v.kind = "str" /\ v.doc \in {"array", "object"} /\ v.items = <<>>

Malformed(v) == v.kind = "str" /\ v.doc = "invalid"

\* the field is absent, a list, or a string that encodes a list
Usable(v) == v.kind \in {"none", "list"} \/ (v.kind = "str" /\ v.doc \in {"array", "empty"})

\* the items iterating the field's value yields
ItemsOf(v) ==
    IF v.kind = "list" \/ (v.kind = "str" /\ v.doc \in {"array", "object"})
    THEN v.items ELSE <<>>

\* both fields of the problem of this call have been parsed
Parsed ==
    /\ InEvaluate
    /\ \/ pc \in {"check_empty", "rtc_loop", "exec_wait", "rtc_check", "rtc_return"}
       \/ pc = "eval_return" /\ exc.line \in {0, 199}

\* C9: The public and the private field are parsed independently: a malformed
\* encoding on one field contributes no test case and is never fatal for the
\* problem, while the other field is still parsed and all of its cases are used
\* for verification.
C9_FieldsParsedIndependently ==
    LET public == problem.public_test_cases
        private == problem.private_test_cases
    IN
    InEvaluate =>
        /\ Malformed(public) => exc.line # 258
        /\ Malformed(private) => exc.line # 266
        /\ Malformed(public) /\ Usable(private) =>
            /\ exc.line \notin {258, 266}
            /\ Parsed => test_cases = ItemsOf(private)
            /\ pc = "eval_return" /\ exc.class = "none" /\ ret.result.passed =>
                    fed = [j \in 1..Len(private.items) |-> private.items[j].input]
        /\ Malformed(private) /\ Usable(public) =>
            /\ exc.line \notin {258, 266}
            /\ Parsed => test_cases = ItemsOf(public)
            /\ pc = "eval_return" /\ exc.class = "none" /\ ret.result.passed =>
                    fed = [j \in 1..Len(public.items) |-> public.items[j].input]

\* with a malformed public field, both cases of the private field were executed
C9_Witness ==
    /\ InEvaluate
    /\ pc = "eval_return"
    /\ problem.public_test_cases = StrField("invalid", <<>>)
    /\ problem.private_test_cases = StrField("array", <<c1, c2>>)
    /\ ret.result.passed
    /\ fed = <<"i1", "i2">>

\* C10: The sequence handed to the verifier is all public cases followed by all
\* private cases, each group in its original order: every public case is
\* executed before any private case, and a failure in a private case is
\* reported only after all public cases passed.
C10_PublicThenPrivate ==
    LET public == ItemsOf(problem.public_test_cases)
        private == ItemsOf(problem.private_test_cases)
        all == public \o private
    IN
    Parsed =>
        /\ test_cases = all
        /\ Len(fed) <= Len(all)
        /\ \A j \in 1..Len(fed) : fed[j] = all[j].input
        /\ pc = "eval_return" /\ exc.class = "none" /\ ~ret.result.passed
                /\ k > Len(public)
            => \A j \in 1..Len(public) :
                    /\ outcomes[j].success
                    /\ Strip(outcomes[j].output) = Strip(public[j].output)

\* the only private case failed after both public cases had passed
C10_Witness ==
    /\ InEvaluate
    /\ pc = "eval_return"
    /\ problem.public_test_cases = ListField(<<c1, c2>>)
    /\ problem.private_test_cases = StrField("array", <<c1>>)
    /\ fed = <<"i1", "i2", "i1">>
    /\ ret.result.error_type = "wrong_answer"

\* the executor call of the case in hand has just returned
ExecutorReturned == pc = "rtc_check"

\* C11 (the part that holds): when the executed code runs longer than the
\* timeout, execute_code_with_input returns (success = false, error kind
\* timeout, empty output) and the process it spawned is no longer running.
C11_TimeoutReturn ==
    ExecutorReturned /\ result = NoResult /\ exec_ret.error_type = "timeout" =>
        /\ exec_ret = [success |-> FALSE, error_type |-> "timeout", output |-> <<>>]
        /\ proc = "none"

\* C11: When the executed code runs longer than the fixed timeout,
\* execute_code_with_input returns (success = false, error kind timeout, empty
\* output), and at the moment it returns neither the spawned process nor any
\* child process that process started is still running.
C11_TimeoutLeavesNothingRunning ==
    ExecutorReturned /\ exec_ret.error_type = "timeout" =>
        /\ exec_ret = [success |-> FALSE, error_type |-> "timeout", output |-> <<>>]
        /\ proc = "none"
        /\ ~children

\* the executor has returned timeout while a process started by the killed
\* process runs on
C11_Witness ==
    /\ ExecutorReturned
    /\ exec_ret = [success |-> FALSE, error_type |-> "timeout", output |-> <<>>]
    /\ proc = "none"
    /\ spawned = 1
    /\ children

AllWhitespace(s) == \A n \in 1..Len(s) : s[n] \in Whitespace

\* what is left of s when whitespace is removed from its two ends and nowhere
\* else: the middle parts of s that neither start nor end with whitespace and
\* have only whitespace on either side
Trimmed(s) ==
    { m \in { SubSeq(s, a + 1, Len(s) - b) : a, b \in 0..Len(s) } :
        \E a, b \in 0..Len(s) :
            /\ a + b <= Len(s)
            /\ m = SubSeq(s, a + 1, Len(s) - b)
            /\ AllWhitespace(SubSeq(s, 1, a))
            /\ AllWhitespace(SubSeq(s, Len(s) - b + 1, Len(s)))
            /\ m # <<>> => m[1] \notin Whitespace /\ m[Len(m)] \notin Whitespace }

\* x and y are equal up to whitespace at their ends
EqualTrimmed(x, y) == Trimmed(x) \cap Trimmed(y) # {}

\* C13: On execution success the verifier passes a case if and only if actual
\* stdout and expected output are equal after removing only leading and
\* trailing whitespace from each side; any difference in interior whitespace or
\* line breaks yields wrong_answer.
C13_ComparesTrimmedOutputs ==
    pc \in {"rtc_loop", "rtc_return"} /\ k >= 1 /\ Len(outcomes) = k
            /\ outcomes[k].success
        =>  IF EqualTrimmed(outcomes[k].output, test_cases[k].output)
            THEN pc = "rtc_loop" \/ rtc_ret = [passed |-> TRUE, error_type |-> "none"]
            ELSE pc = "rtc_return"
                 /\ rtc_ret = [passed |-> FALSE, error_type |-> "wrong_answer"]

\* the same stdout passed a case that differs from it at the ends only and
\* failed a case that differs from it in an interior line break
C13_Witness ==
    /\ pc = "rtc_return"
    /\ test_cases = <<c5, c4>>
    /\ k = 2
    /\ outcomes[1].output = <<"a", "\n", "b">>
    /\ outcomes[2].output = <<"a", "\n", "b">>
    /\ rtc_ret = [passed |-> FALSE, error_type |-> "wrong_answer"]

RECURSIVE FencedBlocks(_, _)
\* The complete fenced blocks of t from position s on, read as a document: the
\* first fence opens a block, the next one closes it, and so on. A block has a
\* header line (a tag or nothing, then a line break) and contents.
FencedBlocks(t, s) ==
    LET open == FindFence(t, s)
        close == IF open = 0 THEN 0 ELSE FindFence(t, open + 1)
    IN
    IF open = 0 \/ close = 0 THEN <<>>
    ELSE IF open + 1 < close /\ t[open + 1] = "\n"
    THEN <<[tag |-> "", contents |-> SubSeq(t, open + 2, close - 1)]>>
         \o FencedBlocks(t, close + 1)
    ELSE IF open + 2 < close /\ t[open + 1] \in WordTokens /\ t[open + 2] = "\n"
    THEN <<[tag |-> t[open + 1], contents |-> SubSeq(t, open + 3, close - 1)]>>
         \o FencedBlocks(t, close + 1)
    ELSE FencedBlocks(t, close + 1)

\* the blocks tagged with the target language or its short alias
TaggedBlocks(t) == SelectSeq(FencedBlocks(t, 1), LAMBDA b : b.tag \in {"python", "py"})

\* the blocks without a tag
UntaggedBlocks(t) == SelectSeq(FencedBlocks(t, 1), LAMBDA b : b.tag = "")

\* a direct call of extract_code_from_response has returned
Extracted == entry = "extract_code_from_response" /\ pc = "extract_return"

Reported == entry = "main" /\ pc \in {"write", "done"}

\* C16: The report's score equals passed_count divided by total_count when
\* total_count > 0 and is exactly 0.0 when total_count is 0, with no division
\* fault; hence the score always lies between 0 and 1.
C16_ScoreIsPassedOverTotal ==
    Reported =>
        /\ report.score.den > 0
        /\ report.total_count > 0 =>
            report.score.num * report.total_count = report.passed_count * report.score.den
        /\ report.total_count = 0 => report.score.num = 0
        /\ 0 <= report.score.num
        /\ report.score.num <= report.score.den

\* the report of a run over an empty dataset has been written, with score 0
C16_Witness ==
    /\ Reported
    /\ pc = "done"
    /\ problems = <<>>
    /\ report.total_count = 0
    /\ report.score = [num |-> 0, den |-> 1]

RECURSIVE CountPassed(_)
\* the number of entries of rs whose passed flag is true
CountPassed(rs) ==
    IF rs = <<>> THEN 0
    ELSE (IF Head(rs).passed THEN 1 ELSE 0) + CountPassed(Tail(rs))

\* C17: In every report, total_count equals sample_size equals the length of
\* the problems list, and passed_count equals the number of entries of that
\* list whose passed flag is true (so 0 <= passed_count <= total_count).
C17_CountsMatchProblems ==
    Reported =>
        /\ report.total_count = report.sample_size
        /\ report.total_count = Len(report.problems)
        /\ report.passed_count = CountPassed(report.problems)
        /\ 0 <= report.passed_count
        /\ report.passed_count <= report.total_count

\* a report of two problems of which the second alone passed
C17_Witness ==
    /\ Reported
    /\ Len(report.problems) = 2
    /\ ~report.problems[1].passed
    /\ report.problems[2].passed
    /\ report.passed_count = 1
    /\ report.total_count = 2

\* C18: calculate_cost never fails on a model id absent from the pricing table:
\* it uses the default tier (input 5.00, output 25.00 per million tokens), and
\* for every model the input cost depends only on the input token count and the
\* input price and the output cost only on the output token count and the
\* output price (tokens / 1,000,000 x price).
C18_CostFromTokensAndPricing ==
    /\ entry = "main" => pc # "raised"
    /\ Reported =>
        LET listed == { e \in MODEL_PRICING : e.model = model } IN
        /\ listed = {} =>
            /\ input_cost = total_input_tokens * 500
            /\ output_cost = total_output_tokens * 2500
        /\ \A e \in listed :
            /\ input_cost = total_input_tokens * e.input
            /\ output_cost = total_output_tokens * e.output

\* the costs of a run with a model id the table does not list
C18_Witness ==
    /\ Reported
    /\ model = <<"g", "p", "t", "-", "4">>
    /\ total_input_tokens = 3
    /\ total_output_tokens = 3
    /\ input_cost = 1500
    /\ output_cost = 7500

\* C19: End-to-end scenario: for a run over three problems A (no test cases), B
\* (one test case whose expected output the generated code produces) and C
\* (generation call fails), the report has total_count = 3, passed_count = 2,
\* score 2/3, C's entry has error_type api_error, and the problems list is
\* ordered A, B, C.
C19_ScenarioReport ==
    Reported /\ problems = ScenarioABC =>
        /\ report.total_count = 3
        /\ report.passed_count = 2
        /\ report.score.num * 3 = 2 * report.score.den
        /\ report.score.den # 0
        /\ Len(report.problems) = 3
        /\ report.problems[3].error_type = "api_error"
        /\ [j \in 1..3 |-> report.problems[j].problem_id] = <<"q1", "q2", "q3">>

\* the report of the scenario has been written
C19_Witness ==
    /\ Reported
    /\ pc = "done"
    /\ written = 1
    /\ problems = ScenarioABC
    /\ report.problems[1].passed
    /\ report.problems[2].passed
    /\ ~report.problems[3].passed

\* main has halted on a fatal failure
Halted == entry = "main" /\ pc \in {"exit", "crashed"}

\* C20 (state part): a halted run has evaluated no problem, made no generation
\* call, started no process and written no report; no exception leaves main
\* anywhere else; past the start the client of the selected provider exists.
C20_NothingDoneWhenHalted ==
    /\ Halted =>
        /\ i = 0
        /\ results = <<>>
        /\ report = NoReport
        /\ written = 0
        /\ gen = "none"
        /\ gen_calls = NoCalls
        /\ proc = "none"
        /\ spawned = 0
        /\ fed = <<>>
    /\ entry = "main" => pc # "raised"
    /\ entry = "main" /\ pc \notin {"main_start", "exit"} =>
        IF UsesOpenAI(model) THEN openai_client ELSE anthropic_client

\* C20 (step part): a run halts only from the creation of the clients or from
\* the loading of the dataset, and a halted run takes no further step.
C20_HaltsOnlyAtTheStart ==
    entry = "main" =>
        /\ pc' \in {"exit", "crashed"} => pc \in {"main_start", "load"}
        /\ pc' = "exit" => pc = "main_start"
        /\ pc' = "crashed" => pc = "load"
        /\ pc \notin {"exit", "crashed"}

----
\* Sequential processing

\* executor calls of this evaluate_problem call that have not returned
ExecutorCallsInFlight == Len(fed) - Len(outcomes)

\* C21: at every moment at most one generation call and at most one sandboxed
\* process are in flight, never both, and while one is in flight for a problem
\* of a run the results of all problems before it have been appended.
C21_OneAtATime ==
    /\ ExecutorCallsInFlight \in {0, 1}
    /\ gen_calls.openai + gen_calls.anthropic <= 1
    /\ gen # "none" =>
        /\ gen_calls.openai + gen_calls.anthropic = 1
        /\ proc = "none"
        /\ ExecutorCallsInFlight = 0
        /\ spawned = 0
    /\ proc = "running" =>
        /\ gen = "none"
        /\ ExecutorCallsInFlight = 1
        /\ spawned <= Len(fed)
    /\ proc = "none" => ExecutorCallsInFlight = 0
    /\ entry = "main" /\ (gen # "none" \/ proc = "running") =>
        /\ i >= 1
        /\ Len(results) = i - 1

\* the process of a test case of the second problem is running
C21_Witness ==
    /\ entry = "main"
    /\ i = 2
    /\ Len(results) = 1
    /\ proc = "running"
    /\ ExecutorCallsInFlight = 1

----
\* Termination

\* evaluate_problem has been called and has not returned
Evaluating ==
    /\ entry \in {"main", "evaluate_problem"}
    /\ pc \in {"eval_entry", "call_api", "gen_wait", "extract", "parse_public",
              "parse_private", "check_empty", "rtc_loop", "exec_wait", "rtc_check",
              "rtc_return"}

\* C22: when every generation call returns or fails, every call of the sandbox
\* executor returns, with the timeout outcome when a process started by the
\* executed code keeps the pipes open, and every evaluation of a problem ends:
\* from every state of an evaluation, a process waited for included, the run
\* reaches the return of evaluate_problem with no executor call left.
C22_EveryProblemTerminates ==
    /\ (Evaluating \/ proc = "running") ~> (pc = "eval_return")
    /\ [](pc = "eval_return" => proc = "none" /\ ExecutorCallsInFlight = 0)
    /\ [](pc = "rtc_check" /\ children => exec_ret.error_type = "timeout")

\* the executor has returned for a process of the second problem whose child
\* still holds the pipes
C22_Witness ==
    /\ entry = "main"
    /\ i = 2
    /\ pc = "rtc_check"
    /\ children
    /\ exec_ret.error_type = "timeout"

----
\* Routing of the generation call

\* the model id starts with the letters g, p, t or with o, 3
NamesOpenAIModel ==
    \/ Len(model) >= 3 /\ model[1] = "g" /\ model[2] = "p" /\ model[3] = "t"
    \/ Len(model) >= 2 /\ model[1] = "o" /\ model[2] = "3"

\* evaluate_problem is past the lines that choose the provider
Routed ==
    /\ entry \in {"main", "evaluate_problem"}
    /\ pc \in {"gen_wait", "extract", "parse_public", "parse_private", "check_empty",
              "rtc_loop", "exec_wait", "rtc_check", "rtc_return", "eval_return"}

----
\* Token totals

\* main appends the result evaluate_problem returned
Appends == entry = "main" /\ pc = "eval_return" /\ pc' = "loop"

\* the tokens one generation call reports, input and output together (the same
\* for every element of Usages)
UsageTotal == CHOOSE t \in { u[1] + u[2] : u \in Usages } : TRUE

\* the totals are zero before the first result, every appended result adds
\* the counts evaluate_problem returned with it, and no other step changes them
C24_TotalsFollowReturns ==
    /\ Appends =>
        /\ total_input_tokens' = total_input_tokens + ret.input_tokens
        /\ total_output_tokens' = total_output_tokens + ret.output_tokens
        /\ Len(results') = Len(results) + 1
    /\ ~Appends =>
        /\ total_input_tokens' = total_input_tokens
        /\ total_output_tokens' = total_output_tokens
        /\ results' # results => results' = <<>>

\* what evaluate_problem returns with a result: zero tokens with api_error, the
\* counts of its generation call with any other failure
C24_ReturnedCounts ==
    entry \in {"main", "evaluate_problem"} /\ pc = "eval_return" =>
        /\ ret.result.error_type = "api_error" =>
            ret.input_tokens = 0 /\ ret.output_tokens = 0
        /\ ret.result.error_type \in {"syntax", "runtime", "wrong_answer", "timeout"} =>
            /\ <<ret.input_tokens, ret.output_tokens>> \in Usages
            /\ ret.input_tokens = input_tokens
            /\ ret.output_tokens = output_tokens

\* the report carries the totals, which count the tokens of every problem but
\* those that ended in api_error
C24_ReportCarriesTotals ==
    /\ results = <<>> => total_input_tokens = 0 /\ total_output_tokens = 0
    /\ Reported =>
        /\ report.input_tokens = total_input_tokens
        /\ report.output_tokens = total_output_tokens
        /\ report.input_tokens + report.output_tokens =
             UsageTotal * Cardinality({ j \in 1..Len(report.problems) :
                                         report.problems[j].error_type # "api_error" })

\* C24: the report's input_tokens and output_tokens are the sums, over the
\* problems of the run, of the counts evaluate_problem returned; a problem that
\* ended in api_error adds zero to both and a problem that failed verification
\* adds the counts of its generation.
C24_TokenTotalsAreSums ==
    /\ [][C24_TotalsFollowReturns]_vars
    /\ [] C24_ReturnedCounts
    /\ [] C24_ReportCarriesTotals

\* a report of two problems, one ended in api_error and one failed
\* verification: the totals are the counts of one generation
C24_Witness ==
    /\ Reported
    /\ Len(report.problems) = 2
    /\ report.problems[1].error_type = "api_error"
    /\ report.problems[2].error_type = "wrong_answer"
    /\ report.input_tokens + report.output_tokens = UsageTotal

----
\* Processes and executor calls

\* the executor call whose outcome is o started no process: subprocess.run
\* raised before there was one
SpawnFailed(o) == o.error_type = "runtime" /\ o.output = <<"OSError">>

\* C25 as stated: the number of processes spawned equals the number of
\* executor calls, whatever their outcomes.
C25_OneProcessPerCall == spawned = Len(fed)

\* the executor calls and the processes, counted: a call that could start its
\* process started one, a call that could not started none
C25_ProcessesCounted ==
    /\ spawned <= Len(fed)
    /\ spawned = Cardinality({ j \in 1..Len(outcomes) : ~SpawnFailed(outcomes[j]) })
                 + (IF proc = "running" THEN 1 ELSE 0)
    /\ Len(fed) - spawned =
           Cardinality({ j \in 1..Len(outcomes) : SpawnFailed(outcomes[j]) })

\* a process is started by the step that makes an executor call, when no
\* process is there, and is gone when that call returns: no call starts a
\* second process and no process outlives its call into the next
C25_ProcessLivesInOneCall ==
    /\ spawned' # spawned /\ spawned' # 0 =>
        /\ spawned' = spawned + 1
        /\ Len(fed') = Len(fed) + 1
        /\ proc = "none" /\ proc' = "running"
    /\ Len(fed') = Len(fed) + 1 => proc = "none"
    /\ Len(outcomes') = Len(outcomes) + 1 => proc' = "none"
    /\ proc = "running" /\ proc' = "running" =>
        /\ spawned' = spawned
        /\ fed' = fed
        /\ outcomes' = outcomes

\* C25, amended: each call of execute_code_with_input makes one attempt to
\* start a process and never retries: it spawns exactly one fresh process, or
\* none when the process cannot be started; no process is used by more than
\* one call.
C25_AtMostOneProcessPerCall ==
    [] C25_ProcessesCounted /\ [][C25_ProcessLivesInOneCall]_vars

\* run_test_cases has returned after two executor calls, each with a process
\* of its own, the second one timed out
C25_Witness ==
    /\ pc = "rtc_return"
    /\ Len(fed) = 2
    /\ spawned = 2
    /\ outcomes[1].success
    /\ outcomes[2].error_type = "timeout"

----
\* The schedule sensor

\* the time a cursor key was made at
KeyInstant(key) ==
    [year |-> key[1], month |-> key[2], day |-> key[3], hour |-> key[4],
     minute |-> key[5], weekday |-> 0]

\* C26: the sensor never triggers the same schedule twice in the same minute:
\* over the evaluations of one UTC minute, and over the schedules of one
\* evaluation, the workflow of a model id is triggered with success at most
\* once.
C26_OncePerMinute ==
    \A key \in BagToSet(sensor.dispatched) : CopiesIn(key, sensor.dispatched) <= 1


\* C27: after the clean-up step of an evaluation the cursor holds no key whose
\* minute lies more than one hour before the current time.
C27_NoKeyOlderThanOneHour ==
    pc = "get_schedules" =>
        \A key \in cursor : ClockMinutes(now) - ClockMinutes(KeyInstant(key)) <= 60

----
\* Tokens of an evaluation that raised after its generation call

\* a statement after the generation call raised: extraction (244), the parsing
\* of the test cases (258, 266) or the verifier (199)
RaisedAfterGeneration ==
    /\ entry \in {"main", "evaluate_problem"}
    /\ exc.class # "none"
    /\ exc.line \in {244, 258, 266, 199}

\* C28: when generation succeeds and a later step of evaluate_problem raises,
\* the token counts returned are 0 and 0, not the counts the generation
\* reported, and the run's totals, from which the cost is computed, do not
\* grow by them.
C28_TokensOfFailedEvaluation ==
    /\ [](RaisedAfterGeneration =>
            /\ pc = "eval_return"
            /\ gen_calls.openai + gen_calls.anthropic = 1
            /\ <<input_tokens, output_tokens>> \in Usages
            /\ ret.result.error_type = "api_error"
            /\ ret.input_tokens = 0
            /\ ret.output_tokens = 0)
    /\ [][RaisedAfterGeneration /\ Appends =>
            /\ total_input_tokens' = total_input_tokens
            /\ total_output_tokens' = total_output_tokens]_vars
    /\ [](Reported =>
            /\ input_cost = calculate_cost(model, total_input_tokens, 0).input_cost
            /\ output_cost = calculate_cost(model, 0, total_output_tokens).output_cost)

\* in a run of main the generation call of the second problem reported its
\* counts and the parsing of its test cases or the verifier raised
C28_Witness ==
    /\ entry = "main"
    /\ i = 2
    /\ pc = "eval_return"
    /\ exc.line \in {199, 258, 266}
    /\ input_tokens > 0
    /\ output_tokens > 0
    /\ ret.input_tokens = 0
    /\ total_input_tokens > 0


\* the keys of the triggers of this evaluation that succeeded
KeysOfSucceeded ==
    { DedupKey(CurrentMinute(now), sensor.trigger_log[j].model_id) :
        j \in { q \in 1..Len(sensor.trigger_log) : sensor.trigger_log[q].ok } }

\* trigger_workflow raises in this step
TriggerRaises ==
    /\ pc = "trigger_wait"
    /\ Len(sensor'.trigger_log) = Len(sensor.trigger_log) + 1
    /\ ~sensor'.trigger_log[Len(sensor'.trigger_log)].ok

\* a trigger that raises changes neither the cursor nor the list of triggered
\* model ids, and the loop goes on with the next schedule
C29_RaiseLeavesCursor ==
    TriggerRaises =>
        /\ sensor'.cursor = sensor.cursor
        /\ sensor'.triggered = sensor.triggered
        /\ sensor'.dispatched = sensor.dispatched
        /\ sensor'.taken = sensor.taken
        /\ pc' = "for_schedule"
        /\ exc' = NoExc

\* the cursor holds, beside the keys loaded and kept by the clean-up, the keys
\* of the triggers that succeeded and no other; an evaluation that got its
\* schedules and did not raise has taken every schedule and has persisted that
\* cursor, once
C29_KeysOfSucceededOnly ==
    /\ pc \in {"for_schedule", "trigger_wait", "update_cursor"} =>
        cursor = CleanUp(CursorLoads(sensor.context_cursor), Cutoff(now))
                    \cup KeysOfSucceeded
    /\ pc = "sensor_return" /\ sensor.ret # "skip_api_error" =>
        /\ sensor.taken = Len(schedules)
        /\ sensor.cursor_updates = 1
        /\ sensor.context_cursor = CursorDumps(cursor)
        /\ KeysOfSucceeded \subseteq cursor
        /\ \A j \in 1..Len(sensor.trigger_log) :
            LET key == DedupKey(CurrentMinute(now), sensor.trigger_log[j].model_id)
            IN key \in cursor => key \in KeysOfSucceeded
        /\ sensor.ret = "none" <=> KeysOfSucceeded # {}

\* C29: a deduplication key is added to the cursor only for a schedule whose
\* workflow trigger succeeded; a trigger that raises leaves the cursor without
\* that key and prevents neither the remaining schedules of the evaluation
\* from being processed nor the cursor from being persisted at the end.
C29_KeyOnlyAfterSuccess ==
    [] C29_KeysOfSucceededOnly /\ [][C29_RaiseLeavesCursor]_vars

\* an evaluation has returned in which the trigger of o3 raised and the
\* trigger of gpt-4-1, the schedule after it, succeeded
C29_Witness ==
    /\ pc = "sensor_return"
    /\ sensor.trigger_log =
         << [model_id |-> "o3", ok |-> FALSE], [model_id |-> "gpt-4-1", ok |-> TRUE] >>
    /\ sensor.context_cursor = CursorDumps({ DedupKey(CurrentMinute(now), "gpt-4-1") })
    /\ sensor.cursor_updates = 1


\* get_schedules raises in this step
FetchFails == pc = "get_schedules" /\ sensor'.ret = "skip_api_error"

\* the evaluation returns at once, with what the scheduler holds untouched
C30_FetchFailureStep ==
    /\ FetchFails =>
        /\ pc' = "sensor_return"
        /\ sensor'.context_cursor = sensor.context_cursor
        /\ sensor'.cursor_updates = 0
        /\ sensor'.trigger_log = <<>>
        /\ sensor'.dispatched = sensor.dispatched
    /\ sensor'.context_cursor # sensor.context_cursor =>
        /\ pc = "update_cursor"
        /\ sensor'.cursor_updates = sensor.cursor_updates + 1
    /\ sensor'.dispatched # sensor.dispatched => pc = "trigger_wait"

\* an evaluation that ended with the API error made no trigger_workflow call
\* and no update_cursor call, and a fetch that fails ends it so
C30_SkipsWithoutEffect ==
    /\ entry = "benchmark_schedule_sensor" /\ sensor.ret = "skip_api_error" =>
        /\ pc = "sensor_return"
        /\ sensor.trigger_log = <<>>
        /\ triggered = <<>>
        /\ sensor.cursor_updates = 0
        /\ sensor.taken = 0
    /\ pc = "sensor_return" =>
        (sensor.ret = "skip_api_error" <=> sensor.cursor_updates = 0)

\* C30: when fetching the schedules fails, the evaluation returns a skip
\* result, triggers no workflow, and leaves the persisted cursor unchanged:
\* update_cursor is not called.
C30_FetchFailureSkips ==
    [] C30_SkipsWithoutEffect /\ [][C30_FetchFailureStep]_vars

\* the second evaluation ended with the API error, two hours after the
\* first one persisted the key of o3
C30_Witness ==
    /\ pc = "sensor_return"
    /\ sensor.evaluations = 2
    /\ sensor.ret = "skip_api_error"
    /\ now = Instants[3]
    /\ sensor.context_cursor = CursorDumps({ DedupKey(CurrentMinute(Instants[1]), "o3") })
    /\ sensor.cursor_updates = 0

====
